---- MODULE Spec2Model ----
(***************************************************************************)
(* A model of the MSK MirrorMaker2 MCP server                              *)
(* (src/src/msk_mm2_mcp_server/server.py):                                 *)
(*   - wait_for_resource_state, the generic state poller;                  *)
(*   - the MCP tools that validate their inputs and call MSK Connect;      *)
(*   - create_complete_mm2_setup, the plugin + three connectors pipeline;  *)
(* and of the MSK Route53 MCP server                                       *)
(* (src/src/msk_custom_domain/server.py):                                  *)
(*   - the lookup helpers and tools;                                       *)
(*   - create_msk_custom_domain and perform_dr_switch.                     *)
(*                                                                         *)
(* Text is modelled as a sequence of tokens.  The tokens are cut so that   *)
(* the substrings the code searches for ("Failed", "ARN: ", ",", the       *)
(* cross mark) occur in a text exactly where they occur as a whole token,  *)
(* which makes Python's `x in s` a membership test on the tokens.          *)
(***************************************************************************)
EXTENDS Integers, Sequences, FiniteSets, TLC

VARIABLES
    now,          \* time.time(), in seconds
    wpc,          \* position in wait_for_resource_state
    wargs,        \* its arguments
    start_time,   \* its local start_time
    observed,     \* what check_function did, one entry per invocation
    sleeps,       \* number of time.sleep(check_interval) calls made
    wresult,      \* the dict it returned
    tool,         \* the entry point that was invoked
    pc,           \* position in that entry point
    args,         \* its arguments
    log,          \* every external call issued, in order (by the current run,
                  \* when the pipeline is run again)
    results,      \* the local list `results` of create_complete_mm2_setup
    plugin_arn,   \* the local plugin_arn of create_complete_mm2_setup
    wait_result,  \* what wait_for_plugin_ready / wait_for_connector_ready returns
    ret,          \* the value the entry point returned
    connector_config, \* the local connector_config of a connector tool
    zone_vpcs,    \* Route53: the VPCs associated with the hosted zone
    zone_records, \* Route53: the resource record sets of the hosted zone
    sw,           \* the invocations of the custom-domain tools, one per caller
    dcalls,       \* every mutating Route53 call issued, in order
    prior         \* the caller's earlier run of the pipeline: its report and what
                  \* it created

pollerVars == <<now, wpc, wargs, start_time, observed, sleeps, wresult>>
toolVars == <<tool, pc, args, results, plugin_arn, wait_result, ret>>
configVars == <<connector_config>>
domainVars == <<zone_vpcs, zone_records, sw, dcalls>>
callerVars == <<prior>>
otherVars == <<configVars, domainVars, callerVars>>
vars == <<now, wpc, wargs, start_time, observed, sleeps, wresult,
          tool, pc, args, log, results, plugin_arn, wait_result, ret,
          connector_config, zone_vpcs, zone_records, sw, dcalls, prior>>

None == "None"

\* An external call, as recorded in log
Call(c, name, arn) == [call |-> c, name |-> name, plugin_arn |-> arn]

----------------------------------------------------------------------------
(* Bounds of the model *)

\* max_wait_seconds of a direct call of the poller ranges over 0..MaxWaitBound
MaxWaitBound == 4
\* check_interval of a direct call of the poller ranges over 1..MaxIntervalBound
MaxIntervalBound == 3
\* an invocation of check_function takes 0..MaxCheckDur seconds
MaxCheckDur == 1
\* max_wait_minutes of a wait tool ranges over 0..MaxWaitMinutes
MaxWaitMinutes == 1
\* at most MaxMissing required parameters of an invocation are missing or empty
MaxMissing == 1

----------------------------------------------------------------------------
(* Constants of the program *)

\* wait_for_plugin_ready: check_interval=15
PluginCheckInterval == 15
\* wait_for_connector_ready: check_interval=30
ConnectorCheckInterval == 30
\* max_wait_seconds=max_wait_minutes * 60
SecondsPerMinute == 60
\* create_complete_mm2_setup: wait_for_plugin_ready(plugin_arn, max_wait_minutes=10)
SetupPluginWaitMinutes == 10

----------------------------------------------------------------------------
(* wait_for_resource_state *)

\* The resource states a check can return.
PluginStates == {"CREATING", "ACTIVE", "CREATE_FAILED", "DELETING"}
ConnectorStates == {"CREATING", "RUNNING", "FAILED", "DELETING"}
GenericStates == {"CREATING", "ACTIVE", "CREATE_FAILED"}

\* What one invocation of check_function does: it returns a state or raises.
Raised == "<raised>"

NoArgs == [check_function |-> <<>>, states |-> {}, target_states |-> {},
           failure_states |-> {}, max_wait_seconds |-> 0, check_interval |-> 0,
           resource_name |-> None]

NoResult == [success |-> FALSE, state |-> None, message |-> <<>>]

\* str(max_wait_seconds) in the timeout message
IntText(n) == <<ToString(n)>>

\* line 164: start_time = time.time()
WaitStart(a) ==
    /\ wargs' = a
    /\ start_time' = now
    /\ wpc' = "test"
    /\ observed' = <<>>
    /\ sleeps' = 0
    /\ wresult' = NoResult
    /\ now' = now

\* Mutant: the loop test admits elapsed = max_wait_seconds.
LoopConditionInclusive == now - start_time <= wargs.max_wait_seconds

\* line 166: while time.time() - start_time < max_wait_seconds
LoopCondition == now - start_time < wargs.max_wait_seconds

TimeoutResult ==
    [success |-> FALSE, state |-> "TIMEOUT",
     message |-> <<wargs.resource_name, " did not reach target state within ">>
                 \o IntText(wargs.max_wait_seconds) \o <<" seconds">>]

\* lines 166, 192-196: the loop test, and the return after the loop
PollTest ==
    /\ wpc = "test"
    /\ IF LoopCondition
       THEN /\ wpc' = "check"
            /\ wresult' = wresult
       ELSE /\ wpc' = "done"
            /\ wresult' = TimeoutResult
    /\ UNCHANGED <<now, wargs, start_time, observed, sleeps, log>>

InProgress(o) ==
    /\ o # Raised
    /\ o \notin wargs.target_states
    /\ o \notin wargs.failure_states

\* Mutant: a target state does not end the loop.
ClassifyTargetRetried(o) ==
    IF o = Raised
    THEN [next |-> "done",
          result |-> [success |-> FALSE, state |-> "ERROR", message |-> <<>>]]
    ELSE IF o \in wargs.failure_states
    THEN [next |-> "done",
          result |-> [success |-> FALSE, state |-> o, message |-> <<>>]]
    ELSE [next |-> "sleep", result |-> wresult]

\* Mutant: a failure state is polled again like a state still in progress.
ClassifyFailureRetried(o) ==
    IF o = Raised
    THEN [next |-> "done",
          result |-> [success |-> FALSE, state |-> "ERROR", message |-> <<>>]]
    ELSE IF o \in wargs.target_states
    THEN [next |-> "done",
          result |-> [success |-> TRUE, state |-> o, message |-> <<>>]]
    ELSE [next |-> "sleep", result |-> wresult]

\* Mutant: an exception of check_function is swallowed and the check retried.
ClassifyErrorRetried(o) ==
    IF o \in wargs.target_states
    THEN [next |-> "done",
          result |-> [success |-> TRUE, state |-> o, message |-> <<>>]]
    ELSE IF o \in wargs.failure_states
    THEN [next |-> "done",
          result |-> [success |-> FALSE, state |-> o, message |-> <<>>]]
    ELSE [next |-> "sleep", result |-> wresult]

\* lines 170-190: what the loop body does with the outcome of check_function
Classify(o) ==
    IF o = Raised
    THEN [next |-> "done",
          result |-> [success |-> FALSE, state |-> "ERROR",
                      message |-> <<"Error checking ", wargs.resource_name,
                                    " state: ", "<exception text>">>]]
    ELSE IF o \in wargs.target_states
    THEN [next |-> "done",
          result |-> [success |-> TRUE, state |-> o,
                      message |-> <<wargs.resource_name,
                                    " successfully reached target state: ", o>>]]
    ELSE IF o \in wargs.failure_states
    THEN [next |-> "done",
          result |-> [success |-> FALSE, state |-> o,
                      message |-> <<wargs.resource_name,
                                    " failed with state: ", o>>]]
    ELSE [next |-> "sleep", result |-> wresult]

\* lines 167-181, 185-190: current_state = check_function() and its classification
PollCheck ==
    /\ wpc = "check"
    /\ \E o \in wargs.states \cup {Raised}, d \in 0..MaxCheckDur :
          /\ now' = now + d
          /\ observed' = Append(observed, o)
          /\ log' = Append(log, wargs.check_function)
          /\ wpc' = Classify(o).next
          /\ wresult' = Classify(o).result
    /\ UNCHANGED <<wargs, start_time, sleeps>>

\* Mutant: the loop sleeps one second whatever check_interval is.
PollSleepOneSecond ==
    /\ wpc = "sleep"
    /\ now' = now + 1
    /\ sleeps' = sleeps + 1
    /\ wpc' = "test"
    /\ UNCHANGED <<wargs, start_time, observed, wresult, log>>

\* line 183: time.sleep(check_interval)
PollSleep ==
    /\ wpc = "sleep"
    /\ now' = now + wargs.check_interval
    /\ sleeps' = sleeps + 1
    /\ wpc' = "test"
    /\ UNCHANGED <<wargs, start_time, observed, wresult, log>>

\* wait_for_plugin_ready, lines 937-948: the arguments it polls with
PluginWaitArgs(max_wait_minutes) ==
    [check_function |-> Call("describe_custom_plugin", <<>>, <<>>), states |-> PluginStates,
     target_states |-> {"ACTIVE"},
     failure_states |-> {"CREATE_FAILED", "DELETING"},
     max_wait_seconds |-> max_wait_minutes * SecondsPerMinute,
     check_interval |-> PluginCheckInterval,
     resource_name |-> "Plugin"]

\* wait_for_connector_ready, lines 1705-1716: the arguments it polls with
ConnectorWaitArgs(max_wait_minutes) ==
    [check_function |-> Call("describe_connector", <<>>, <<>>), states |-> ConnectorStates,
     target_states |-> {"RUNNING"},
     failure_states |-> {"FAILED", "DELETING"},
     max_wait_seconds |-> max_wait_minutes * SecondsPerMinute,
     check_interval |-> ConnectorCheckInterval,
     resource_name |-> "Connector"]

----------------------------------------------------------------------------
(* The poller called directly, with arguments drawn from bounded sets *)

\* The callers of the custom-domain tools.  Each makes at most one invocation.
Procs == {"A", "B"}

\* the caller has not run the pipeline yet
NoPrior == [ret |-> <<>>, created |-> <<>>]

\* a caller that has invoked nothing
NotStarted == [op |-> None, pc |-> "idle"]

\* No connector configuration is being built, nothing was invoked on the
\* custom-domain server and its hosted zone is empty.
OthersIdle ==
    /\ connector_config = None
    /\ zone_vpcs = {}
    /\ zone_records = <<>>
    /\ sw = [p \in Procs |-> NotStarted]
    /\ dcalls = <<>>
    /\ prior = NoPrior

ToolsIdle ==
    /\ tool = None
    /\ pc = "idle"
    /\ args = None
    /\ results = <<>>
    /\ plugin_arn = None
    /\ wait_result = None
    /\ ret = None

PollerArgs ==
    { [check_function |-> Call("check_function", <<>>, <<>>), states |-> GenericStates,
       target_states |-> t, failure_states |-> f,
       max_wait_seconds |-> m, check_interval |-> i, resource_name |-> "resource"] :
         t \in SUBSET GenericStates, f \in SUBSET GenericStates,
         m \in 0..MaxWaitBound, i \in 1..MaxIntervalBound }

InitPoller ==
    /\ ToolsIdle
    /\ OthersIdle
    /\ log = <<>>
    /\ now = 0
    /\ start_time = 0
    /\ observed = <<>>
    /\ sleeps = 0
    /\ wresult = NoResult
    /\ wpc = "test"
    /\ wargs \in {a \in PollerArgs : a.target_states \cap a.failure_states = {}}
                 \cup {PluginWaitArgs(m) : m \in 0..MaxWaitMinutes}
                 \cup {ConnectorWaitArgs(m) : m \in 0..MaxWaitMinutes}

PollTestStep == PollTest /\ UNCHANGED <<toolVars, otherVars>>
PollCheckStep == PollCheck /\ UNCHANGED <<toolVars, otherVars>>
PollSleepStep == PollSleep /\ UNCHANGED <<toolVars, otherVars>>

NextPoller == PollTestStep \/ PollCheckStep \/ PollSleepStep

SpecPoller == InitPoller /\ [][NextPoller]_vars

\* The poller runs in the calling thread, which keeps executing it.
SpecPollerFair == SpecPoller /\ WF_vars(NextPoller)

----------------------------------------------------------------------------
(* Text *)

Failed == "Failed"
ArnLabel == "ARN: "
Comma == ","
\* U+274C, the cross mark, and U+2705, the check mark
CrossMark == "<U+274C>"
CheckMark == "<U+2705>"
NewLine == "<LF>"

\* Python's `tok in text`
Contains(text, tok) == \E i \in 1..Len(text) : text[i] = tok

\* Python's text.find(tok) + 1: the first place of tok, 0 when absent
IndexOf(text, tok) ==
    IF Contains(text, tok)
    THEN CHOOSE i \in 1..Len(text) :
            text[i] = tok /\ \A j \in 1..(i - 1) : text[j] # tok
    ELSE 0

\* Python's text.split(sep)[0]
SplitPart0(text, sep) ==
    IF Contains(text, sep) THEN SubSeq(text, 1, IndexOf(text, sep) - 1) ELSE text

\* Python's text.split(sep)[1], defined when sep occurs in text
SplitPart1(text, sep) ==
    SplitPart0(SubSeq(text, IndexOf(text, sep) + 1, Len(text)), sep)

\* Python's sep.join(parts), parts a sequence of texts
RECURSIVE Join(_, _)
Join(parts, sep) ==
    IF parts = <<>> THEN <<>>
    ELSE IF Len(parts) = 1 THEN parts[1]
    ELSE parts[1] \o sep \o Join(Tail(parts), sep)

\* Python's ', '.join(names), names a sequence of strings
JoinNames(names) == Join([i \in 1..Len(names) |-> <<names[i]>>], <<Comma, " ">>)

\* Python's `not value` for a str, a list or None: None and the empty str and
\* list are all the empty text
Falsy(value) == value = <<>>

----------------------------------------------------------------------------
(* The helpers of the tools *)

\* What the environment does to one tool invocation: the outcome of
\* boto3.client(...) and of the MSK Connect request
ClientOutcomes == {"ok", "NoCredentialsError", "Exception"}
ApiOutcomes == {"ok", "ClientError", "Exception"}
Envs == [client : ClientOutcomes, api : ApiOutcomes]

\* lines 118-134
MissingFields(params, required_fields) ==
    SelectSeq(required_fields,
              LAMBDA field : field \notin DOMAIN params \/ Falsy(params[field]))

\* Mutant: validation only looks at the first required field.
ValidateFirstFieldOnly(params, required_fields) ==
    LET missing_fields == MissingFields(params, SubSeq(required_fields, 1, 1))
    IN  [raised |-> missing_fields # <<>>,
         text |-> <<"Missing required parameters: ">> \o JoinNames(missing_fields)
                  \o <<". Please provide all required parameters.">>]

\* lines 118-134: raises ValueError when a required field is missing or empty
validate_required_params(params, required_fields) ==
    LET missing_fields == MissingFields(params, required_fields)
    IN  [raised |-> missing_fields # <<>>,
         text |-> <<"Missing required parameters: ">> \o JoinNames(missing_fields)
                  \o <<". Please provide all required parameters.">>]

\* lines 75-95: the client, or the exception raised
get_kafka_connect_client(outcome) ==
    [raised |-> outcome # "ok",
     call |-> Call("boto3.client", <<"kafkaconnect">>, <<>>),
     text |-> IF outcome = "NoCredentialsError"
              THEN <<"AWS credentials not found. Please configure AWS credentials using AWS CLI",
                     Comma, " environment variables", Comma, " or IAM roles.">>
              ELSE <<Failed, " to create Kafka Connect client: ", "<cause>">>]

\* str(e) of a botocore ClientError
ClientErrorText(operation) ==
    <<"An error occurred (", "<code>", ") when calling the ", operation,
      " operation: ", "<message>">>

\* the tail of a tool's `except ClientError` / `except Exception` messages
ApiErrorText(prefix, outcome, operation) ==
    IF outcome = "ClientError"
    THEN <<prefix, " (", "<code>", "): ">> \o ClientErrorText(operation)
    ELSE <<prefix, ": ", "<exception text>">>

----------------------------------------------------------------------------
(* generate_cluster_auth_config *)

\* str.lower() on the authentication types the model draws
Lower(auth_type) ==
    CASE auth_type = "IAM" -> "iam"
      [] auth_type = "PLAINTEXT" -> "plaintext"
      [] auth_type = "SCRAM" -> "scram"
      [] auth_type = "Kerberos" -> "kerberos"
      [] OTHER -> auth_type

\* f"{cluster_alias}.cluster.{rest}"
ClusterKey(cluster_alias, rest) == <<cluster_alias, ".cluster.", rest>>

\* a dict from its items
DictOf(items) ==
    [k \in {it[1] : it \in items} |-> (CHOOSE it \in items : it[1] = k)[2]]

\* Python's d.update(e)
Update(d, e) ==
    [k \in DOMAIN d \cup DOMAIN e |-> IF k \in DOMAIN e THEN e[k] ELSE d[k]]

IamJaas(role_arn) ==
    <<"software.amazon.msk.auth.iam.IAMLoginModule required awsRoleArn=\"">>
    \o role_arn \o <<"\" awsDebugCreds=true;">>

\* Mutant: the password is left out of the JAAS string.
ScramJaasWithoutPassword(username, password) ==
    <<"org.apache.kafka.common.security.scram.ScramLoginModule required username=\"">>
    \o username \o <<"\";">>

ScramJaas(username, password) ==
    <<"org.apache.kafka.common.security.scram.ScramLoginModule required username=\"">>
    \o username \o <<"\" password=\"">> \o password \o <<"\";">>

\* Mutant: the credentials a mechanism needs are not checked.
AuthConfigWithoutCredentialChecks(cluster_alias, auth_type, role_arn, username, password) ==
    IF Lower(auth_type) \in {"iam", "plaintext", "scram"}
    THEN [raised |-> FALSE, text |-> <<>>,
          config |-> DictOf(
              {<<ClusterKey(cluster_alias, "security.protocol"),
                 IF Lower(auth_type) = "plaintext" THEN <<"PLAINTEXT">> ELSE <<"SASL_SSL">>>>,
               <<ClusterKey(cluster_alias, "sasl.jaas.config"),
                 IF Lower(auth_type) = "iam" THEN IamJaas(role_arn)
                 ELSE ScramJaas(username, password)>>})]
    ELSE [raised |-> TRUE, config |-> <<>>,
          text |-> <<"Unsupported authentication type: ", auth_type,
                     ". Supported types: iam", Comma, " plaintext", Comma, " scram">>]

\* Mutant: the keys do not carry the cluster alias.
AuthConfigWithoutAlias(cluster_alias, auth_type, role_arn, username, password) ==
    IF Lower(auth_type) = "iam" /\ ~Falsy(role_arn)
    THEN [raised |-> FALSE, text |-> <<>>,
          config |-> DictOf({<<<<"security.protocol">>, <<"SASL_SSL">>>>,
                             <<<<"sasl.mechanism">>, <<"AWS_MSK_IAM">>>>,
                             <<<<"sasl.jaas.config">>, IamJaas(role_arn)>>})]
    ELSE IF Lower(auth_type) = "plaintext"
    THEN [raised |-> FALSE, text |-> <<>>,
          config |-> DictOf({<<<<"security.protocol">>, <<"PLAINTEXT">>>>})]
    ELSE IF Lower(auth_type) = "scram" /\ ~Falsy(username) /\ ~Falsy(password)
    THEN [raised |-> FALSE, text |-> <<>>,
          config |-> DictOf({<<<<"security.protocol">>, <<"SASL_SSL">>>>,
                             <<<<"sasl.mechanism">>, <<"SCRAM-SHA-512">>>>,
                             <<<<"sasl.jaas.config">>, ScramJaas(username, password)>>})]
    ELSE [raised |-> TRUE, config |-> <<>>, text |-> <<"<ValueError>">>]

\* lines 230-280: the config dict, or the ValueError raised
generate_cluster_auth_config(cluster_alias, auth_type, role_arn, username, password) ==
    IF Lower(auth_type) = "iam"
    THEN IF Falsy(role_arn)
         THEN [raised |-> TRUE, config |-> <<>>,
               text |-> <<"IAM role ARN is required for IAM authentication on ",
                          cluster_alias, " cluster">>]
         ELSE [raised |-> FALSE, text |-> <<>>,
               config |-> DictOf(
                   {<<ClusterKey(cluster_alias, "security.protocol"), <<"SASL_SSL">>>>,
                    <<ClusterKey(cluster_alias, "producer.security.protocol"), <<"SASL_SSL">>>>,
                    <<ClusterKey(cluster_alias, "consumer.security.protocol"), <<"SASL_SSL">>>>,
                    <<ClusterKey(cluster_alias, "sasl.mechanism"), <<"AWS_MSK_IAM">>>>,
                    <<ClusterKey(cluster_alias, "producer.sasl.mechanism"), <<"AWS_MSK_IAM">>>>,
                    <<ClusterKey(cluster_alias, "consumer.sasl.mechanism"), <<"AWS_MSK_IAM">>>>,
                    <<ClusterKey(cluster_alias, "sasl.jaas.config"), IamJaas(role_arn)>>,
                    <<ClusterKey(cluster_alias, "producer.sasl.jaas.config"), IamJaas(role_arn)>>,
                    <<ClusterKey(cluster_alias, "consumer.sasl.jaas.config"), IamJaas(role_arn)>>,
                    <<ClusterKey(cluster_alias, "sasl.client.callback.handler.class"),
                      <<"software.amazon.msk.auth.iam.IAMClientCallbackHandler">>>>,
                    <<ClusterKey(cluster_alias, "producer.sasl.client.callback.handler.class"),
                      <<"software.amazon.msk.auth.iam.IAMClientCallbackHandler">>>>,
                    <<ClusterKey(cluster_alias, "consumer.sasl.client.callback.handler.class"),
                      <<"software.amazon.msk.auth.iam.IAMClientCallbackHandler">>>>})]
    ELSE IF Lower(auth_type) = "plaintext"
    THEN [raised |-> FALSE, text |-> <<>>,
          config |-> DictOf(
              {<<ClusterKey(cluster_alias, "security.protocol"), <<"PLAINTEXT">>>>,
               <<ClusterKey(cluster_alias, "producer.security.protocol"), <<"PLAINTEXT">>>>,
               <<ClusterKey(cluster_alias, "consumer.security.protocol"), <<"PLAINTEXT">>>>})]
    ELSE IF Lower(auth_type) = "scram"
    THEN IF Falsy(username) \/ Falsy(password)
         THEN [raised |-> TRUE, config |-> <<>>,
               text |-> <<"Username and password are required for SCRAM authentication on ",
                          cluster_alias, " cluster">>]
         ELSE [raised |-> FALSE, text |-> <<>>,
               config |-> DictOf(
                   {<<ClusterKey(cluster_alias, "security.protocol"), <<"SASL_SSL">>>>,
                    <<ClusterKey(cluster_alias, "producer.security.protocol"), <<"SASL_SSL">>>>,
                    <<ClusterKey(cluster_alias, "consumer.security.protocol"), <<"SASL_SSL">>>>,
                    <<ClusterKey(cluster_alias, "sasl.mechanism"), <<"SCRAM-SHA-512">>>>,
                    <<ClusterKey(cluster_alias, "producer.sasl.mechanism"), <<"SCRAM-SHA-512">>>>,
                    <<ClusterKey(cluster_alias, "consumer.sasl.mechanism"), <<"SCRAM-SHA-512">>>>,
                    <<ClusterKey(cluster_alias, "sasl.jaas.config"), ScramJaas(username, password)>>,
                    <<ClusterKey(cluster_alias, "producer.sasl.jaas.config"), ScramJaas(username, password)>>,
                    <<ClusterKey(cluster_alias, "consumer.sasl.jaas.config"), ScramJaas(username, password)>>})]
    ELSE [raised |-> TRUE, config |-> <<>>,
          text |-> <<"Unsupported authentication type: ", auth_type,
                     ". Supported types: iam", Comma, " plaintext", Comma, " scram">>]

----------------------------------------------------------------------------
(* The tools.  Each operator gives what one invocation returns (text) and   *)
(* the external calls it issues (calls), under the environment outcome e.  *)

\* the ARN MSK Connect gives a resource
ArnOf(kind, name) == <<"arn:aws:kafkaconnect:", kind, "/">> \o name

\* lines 798-829
create_custom_plugin(plugin_name, s3_bucket, s3_key, e) ==
    LET v == validate_required_params(
                 [plugin_name |-> plugin_name, s3_bucket |-> s3_bucket, s3_key |-> s3_key],
                 <<"plugin_name", "s3_bucket", "s3_key">>)
        client == get_kafka_connect_client(e.client)
        request == Call("create_custom_plugin", plugin_name, <<>>)
    IN  IF v.raised
        THEN [text |-> <<"Plugin creation failed: ">> \o v.text, calls |-> <<>>]
        ELSE IF client.raised
        THEN [text |-> <<"Plugin creation failed: ">> \o client.text,
              calls |-> <<client.call>>]
        ELSE IF e.api # "ok"
        THEN [text |-> ApiErrorText("Plugin creation failed", e.api, "CreateCustomPlugin"),
              calls |-> <<client.call, request>>]
        ELSE [text |-> <<"Plugin creation started: ">> \o plugin_name
                       \o <<Comma, " ", ArnLabel>> \o ArnOf("custom-plugin", plugin_name)
                       \o <<Comma, " Initial state: ", "CREATING",
                            ". Use check_plugin_status to monitor final status.">>,
              calls |-> <<client.call, request>>]

\* lines 1005-1032 (properties is a dict, as the tool's signature says)
create_worker_configuration(worker_config_name, properties, e) ==
    LET v == validate_required_params(
                 [worker_config_name |-> worker_config_name, properties |-> properties],
                 <<"worker_config_name", "properties">>)
        client == get_kafka_connect_client(e.client)
        request == Call("create_worker_configuration", worker_config_name, <<>>)
    IN  IF v.raised
        THEN [text |-> <<"Worker configuration creation failed: ">> \o v.text,
              calls |-> <<>>]
        ELSE IF client.raised
        THEN [text |-> <<"Worker configuration creation failed: ">> \o client.text,
              calls |-> <<client.call>>]
        ELSE IF e.api # "ok"
        THEN [text |-> ApiErrorText("Worker configuration creation failed", e.api,
                                    "CreateWorkerConfiguration"),
              calls |-> <<client.call, request>>]
        ELSE [text |-> <<"Successfully created worker configuration: ">>
                       \o worker_config_name \o <<Comma, " ", ArnLabel>>
                       \o ArnOf("worker-configuration", worker_config_name),
              calls |-> <<client.call, request>>]

\* lines 1965-1995 (connector_configuration is a dict, as the signature says)
update_connector(connector_arn, connector_configuration, current_version, e) ==
    LET v == validate_required_params(
                 [connector_arn |-> connector_arn,
                  connector_configuration |-> connector_configuration,
                  current_version |-> current_version],
                 <<"connector_arn", "connector_configuration", "current_version">>)
        client == get_kafka_connect_client(e.client)
        request == Call("update_connector", connector_arn, <<>>)
    IN  IF v.raised
        THEN [text |-> <<Failed, " to update connector: ">> \o v.text, calls |-> <<>>]
        ELSE IF client.raised
        THEN [text |-> <<Failed, " to update connector: ">> \o client.text,
              calls |-> <<client.call>>]
        ELSE IF e.api = "ClientError"
        THEN [text |-> <<Failed, " to update connector (", "<code>", "): ">>
                       \o ClientErrorText("UpdateConnector"),
              calls |-> <<client.call, request>>]
        ELSE IF e.api # "ok"
        THEN [text |-> <<Failed, " to update connector: ", "<exception text>">>,
              calls |-> <<client.call, request>>]
        ELSE [text |-> <<"Successfully updated connector: ">> \o connector_arn
                       \o <<Comma, " State: ", "UPDATING">>,
              calls |-> <<client.call, request>>]

\* lines 2009-2028, 2041-2053, 2066-2078: delete_connector (which also requires
\* current_version), delete_custom_plugin and delete_worker_configuration
DeleteTools == {"delete_connector", "delete_custom_plugin", "delete_worker_configuration"}

DeleteWhat(t) ==
    CASE t = "delete_connector" -> "connector"
      [] t = "delete_custom_plugin" -> "plugin"
      [] t = "delete_worker_configuration" -> "worker configuration"

DeleteSuccessWhat(t) ==
    IF t = "delete_worker_configuration" THEN "workerConfiguration" ELSE DeleteWhat(t)

DeleteRequired(t) ==
    CASE t = "delete_connector" -> <<"connector_arn", "current_version">>
      [] t = "delete_custom_plugin" -> <<"plugin_arn">>
      [] t = "delete_worker_configuration" -> <<"worker_config_arn">>

delete_resource(t, params, e) ==
    LET v == validate_required_params(params, DeleteRequired(t))
        client == get_kafka_connect_client(e.client)
        arn == params[DeleteRequired(t)[1]]
        request == Call(t, arn, <<>>)
    IN  IF v.raised
        THEN [text |-> <<Failed, " to delete ", DeleteWhat(t), ": ">> \o v.text,
              calls |-> <<>>]
        ELSE IF client.raised
        THEN [text |-> <<Failed, " to delete ", DeleteWhat(t), ": ">> \o client.text,
              calls |-> <<client.call>>]
        ELSE IF e.api = "ClientError"
        THEN [text |-> <<Failed, " to delete ", DeleteWhat(t), " (", "<code>", "): ">>
                       \o ClientErrorText(t),
              calls |-> <<client.call, request>>]
        ELSE IF e.api # "ok"
        THEN [text |-> <<Failed, " to delete ", DeleteWhat(t), ": ", "<exception text>">>,
              calls |-> <<client.call, request>>]
        ELSE [text |-> <<"Successfully deleted ", DeleteSuccessWhat(t), ": ">> \o arn
                       \o <<Comma, " State: ", "DELETING">>,
              calls |-> <<client.call, request>>]

----------------------------------------------------------------------------
(* create_mirror_heartbeat_connector, create_mirror_checkpoint_connector,   *)
(* create_mirror_source_connector                                          *)

ConnectorKinds == {"Heartbeat", "Checkpoint", "Source"}

ConnectorClass(kind) == "Mirror" \o kind \o "Connector"

ConnectorTool(kind) ==
    CASE kind = "Heartbeat" -> "create_mirror_heartbeat_connector"
      [] kind = "Checkpoint" -> "create_mirror_checkpoint_connector"
      [] kind = "Source" -> "create_mirror_source_connector"

ConnectorRequired ==
    <<"connector_name", "source_bootstrap_servers", "target_bootstrap_servers",
      "plugin_arn", "service_execution_role_arn", "vpc_subnets", "vpc_security_groups">>

\* lines 1126-1143, 1307-1331, 1493-1520: connector_config before the
\* authentication entries are merged in (replication_factor and tasks_max at
\* their defaults)
CommonConfigItems(kind, a) ==
    {<<<<"connector.class">>, <<"org.apache.kafka.connect.mirror.", ConnectorClass(kind)>>>>,
     <<ClusterKey("source", "alias"), <<"source">>>>,
     <<ClusterKey("target", "alias"), <<"target">>>>,
     <<<<"clusters">>, <<"source", Comma, "target">>>>,
     <<ClusterKey("source", "bootstrap.servers"), a.source_bootstrap_servers>>,
     <<ClusterKey("target", "bootstrap.servers"), a.target_bootstrap_servers>>,
     <<<<"consumer.auto.offset.reset">>, <<"earliest">>>>,
     <<<<"producer.linger.ms">>, <<"500">>>>,
     <<<<"producer.retry.backoff.ms">>, <<"1000">>>>,
     <<<<"producer.max.block.ms">>, <<"10000">>>>,
     <<<<"replication.factor">>, <<"3">>>>,
     <<<<"tasks.max">>, <<"1">>>>,
     <<<<"key.converter">>, <<"org.apache.kafka.connect.converters.ByteArrayConverter">>>>,
     <<<<"value.converter">>, <<"org.apache.kafka.connect.converters.ByteArrayConverter">>>>}

CheckpointConfigItems ==
    {<<<<"topics">>, <<".*">>>>,
     <<<<"topics.exclude">>,
       <<".*[-.]internal", Comma, " .*.replica", Comma, " __.*", Comma, " .*-config",
         Comma, " .*-status", Comma, " .*-offset">>>>,
     <<<<"groups.exclude">>, <<"console-consumer-.*", Comma, " connect-.*", Comma, " __.*">>>>,
     <<<<"refresh.groups.enabled">>, <<"true">>>>,
     <<<<"refresh.groups.interval.seconds">>, <<"60">>>>,
     <<<<"emit.checkpoints.enabled">>, <<"true">>>>,
     <<<<"sync.group.offsets.interval.seconds">>, <<"5">>>>}

SourceConfigItems ==
    {<<<<"topics">>, <<".*">>>>,
     <<<<"topics.exclude">>,
       <<".*[-.]internal", Comma, ".*.replica", Comma, "__.*", Comma, ".*-config",
         Comma, ".*-status", Comma, ".*-offset">>>>,
     <<<<"groups.exclude">>, <<"console-consumer-.*", Comma, "connect-.*", Comma, "__.*">>>>,
     <<<<"refresh.groups.enabled">>, <<"true">>>>,
     <<<<"refresh.groups.interval.seconds">>, <<"60">>>>,
     <<<<"refresh.topics.interval.seconds">>, <<"60">>>>,
     <<<<"refresh.topics.enabled">>, <<"true">>>>,
     <<<<"emit.checkpoints.enabled">>, <<"true">>>>,
     <<<<"sync.topic.configs.enabled">>, <<"true">>>>,
     <<<<"sync.topic.configs.interval.seconds">>, <<"60">>>>}

BaseConnectorConfig(kind, a) ==
    DictOf(CommonConfigItems(kind, a)
           \cup (IF kind = "Checkpoint" THEN CheckpointConfigItems ELSE {})
           \cup (IF kind = "Source" THEN SourceConfigItems ELSE {}))

\* lines 1145-1161, 1333-1345, 1522-1534: the authentication entries merged into
\* connector_config, or the message returned on ValueError.  The heartbeat tool
\* names the cluster in the message, the other two do not.
ConnectorAuth(kind, a) ==
    LET source_auth_config ==
            generate_cluster_auth_config("source", a.source_auth_type, a.source_role_arn,
                                         a.source_username, a.source_password)
        target_auth_config ==
            generate_cluster_auth_config("target", a.target_auth_type, a.target_role_arn,
                                         a.target_username, a.target_password)
    IN  IF source_auth_config.raised
        THEN [raised |-> TRUE, config |-> <<>>,
              text |-> (IF kind = "Heartbeat"
                        THEN <<"Source cluster authentication configuration error: ">>
                        ELSE <<"Authentication configuration error: ">>)
                       \o source_auth_config.text]
        ELSE IF target_auth_config.raised
        THEN [raised |-> TRUE, config |-> <<>>,
              text |-> (IF kind = "Heartbeat"
                        THEN <<"Target cluster authentication configuration error: ">>
                        ELSE <<"Authentication configuration error: ">>)
                       \o target_auth_config.text]
        ELSE [raised |-> FALSE, text |-> <<>>,
              config |-> Update(Update(BaseConnectorConfig(kind, a),
                                       source_auth_config.config),
                                target_auth_config.config)]

\* lines 1107-1215, 1288-1399, 1474-1589
create_mirror_connector(kind, a, e) ==
    LET v == validate_required_params(a, ConnectorRequired)
        client == get_kafka_connect_client(e.client)
        auth == ConnectorAuth(kind, a)
        request == Call("create_connector", a.connector_name, a.plugin_arn)
    IN  IF v.raised
        THEN [text |-> <<ConnectorClass(kind), " creation failed: ">> \o v.text,
              calls |-> <<>>]
        ELSE IF Falsy(a.vpc_subnets) \/ Falsy(a.vpc_security_groups)
        THEN [text |-> <<"Error: VPC subnets and security groups cannot be empty">>,
              calls |-> <<>>]
        ELSE IF client.raised
        THEN [text |-> <<ConnectorClass(kind), " creation failed: ">> \o client.text,
              calls |-> <<client.call>>]
        ELSE IF auth.raised
        THEN [text |-> auth.text, calls |-> <<client.call>>]
        ELSE IF e.api # "ok"
        THEN [text |-> ApiErrorText(ConnectorClass(kind) \o " creation failed", e.api,
                                    "CreateConnector"),
              calls |-> <<client.call, request>>]
        ELSE [text |-> <<"Successfully created ", ConnectorClass(kind), ": ">>
                       \o a.connector_name \o <<Comma, " ", ArnLabel>>
                       \o ArnOf("connector", a.connector_name)
                       \o <<Comma, " State: ", "CREATING",
                            ". Use check_connector_status to monitor final status.">>,
              calls |-> <<client.call, request>>]

----------------------------------------------------------------------------
(* The arguments the model invokes the tools with *)

\* a value of a parameter that is present
Sample(field) ==
    CASE field = "plugin_name" -> <<"mm2">>
      [] field = "connector_name" -> <<"mm2-connector">>
      [] field = "plugin_arn" -> ArnOf("custom-plugin", <<"mm2">>)
      [] field = "connector_arn" -> ArnOf("connector", <<"mm2-connector">>)
      [] OTHER -> <<"<", field, ">">>

SeqToSet(q) == {q[i] : i \in 1..Len(q)}

\* every assignment of the fields in which at most MaxMissing are empty
ParamChoices(fields) ==
    {[f \in SeqToSet(fields) |-> IF f \in missing THEN <<>> ELSE Sample(f)] :
        missing \in {m \in SUBSET SeqToSet(fields) : Cardinality(m) <= MaxMissing}}

\* f extended with the fields of g
Extend(f, g) == [k \in DOMAIN f \cup DOMAIN g |-> IF k \in DOMAIN f THEN f[k] ELSE g[k]]

AuthTypes == {"iam", "PLAINTEXT", "scram", "kerberos"}
RoleArnChoices == {<<>>, <<"arn:aws:iam::role/msk">>}
Credentials ==
    {[role_arn |-> <<>>, username |-> <<>>, password |-> <<>>],
     [role_arn |-> <<"arn:aws:iam::role/msk">>, username |-> <<>>, password |-> <<>>],
     [role_arn |-> <<>>, username |-> <<"alice">>, password |-> <<"s3cret">>],
     [role_arn |-> <<>>, username |-> <<"alice">>, password |-> <<>>]}

ConnectorAuthChoices ==
    {[source_auth_type |-> st, target_auth_type |-> tt,
      source_role_arn |-> sc.role_arn, target_role_arn |-> tc.role_arn,
      source_username |-> sc.username, source_password |-> sc.password,
      target_username |-> tc.username, target_password |-> tc.password] :
        st \in AuthTypes, tt \in AuthTypes, sc \in Credentials, tc \in Credentials}

SetupRequired ==
    <<"plugin_name", "s3_bucket", "s3_key", "source_bootstrap_servers",
      "target_bootstrap_servers", "service_execution_role_arn", "vpc_subnets",
      "vpc_security_groups">>

SetupAuthTypes == {"iam", "PLAINTEXT", "kerberos"}

SetupAuthChoices ==
    [source_auth_type : SetupAuthTypes, target_auth_type : SetupAuthTypes,
     source_role_arn : RoleArnChoices, target_role_arn : RoleArnChoices]

SetupTool == "create_complete_mm2_setup"
WaitTools == {"wait_for_plugin_ready", "wait_for_connector_ready"}

----------------------------------------------------------------------------
(* The tools that run in one step *)

Init ==
    /\ ToolsIdle
    /\ OthersIdle
    /\ log = <<>>
    /\ now = 0
    /\ start_time = 0
    /\ observed = <<>>
    /\ sleeps = 0
    /\ wresult = NoResult
    /\ wpc = "idle"
    /\ wargs = NoArgs

\* the tool t, invoked with a, returns r.text after issuing r.calls
Returns(t, a, r) ==
    /\ pc = "idle"
    /\ tool' = t
    /\ args' = a
    /\ log' = log \o r.calls
    /\ ret' = r.text
    /\ pc' = "done"
    /\ UNCHANGED <<results, plugin_arn, wait_result>>
    /\ UNCHANGED <<pollerVars, otherVars>>

Tool_create_custom_plugin ==
    /\ pc = "idle"
    /\ \E a \in ParamChoices(<<"plugin_name", "s3_bucket", "s3_key">>), e \in Envs :
               Returns("create_custom_plugin", a,
                       create_custom_plugin(a.plugin_name, a.s3_bucket, a.s3_key, e))

Tool_create_worker_configuration ==
    /\ pc = "idle"
    /\ \E a \in ParamChoices(<<"worker_config_name", "properties">>), e \in Envs :
               Returns("create_worker_configuration", a,
                       create_worker_configuration(a.worker_config_name, a.properties, e))

Tool_update_connector ==
    /\ pc = "idle"
    /\ \E a \in ParamChoices(<<"connector_arn", "connector_configuration", "current_version">>),
              e \in Envs :
               Returns("update_connector", a,
                       update_connector(a.connector_arn, a.connector_configuration,
                                        a.current_version, e))

Tool_delete ==
    /\ pc = "idle"
    /\ \E t \in DeleteTools, e \in Envs :
               \E a \in ParamChoices(DeleteRequired(t)) :
                   Returns(t, a, delete_resource(t, a, e))

Tool_create_mirror_connector ==
    /\ pc = "idle"
    /\ \E kind \in ConnectorKinds, p \in ParamChoices(ConnectorRequired),
              auth \in ConnectorAuthChoices, e \in Envs :
               Returns(ConnectorTool(kind), Extend(p, auth),
                       create_mirror_connector(kind, Extend(p, auth), e))

----------------------------------------------------------------------------
(* wait_for_plugin_ready and wait_for_connector_ready, called as tools or,  *)
(* the former, by create_complete_mm2_setup                                *)

WaitedKind == IF tool = "wait_for_connector_ready" THEN "connector" ELSE "plugin"

WaitedArn ==
    IF tool = SetupTool THEN plugin_arn
    ELSE IF tool = "wait_for_connector_ready" THEN args.connector_arn
    ELSE args.plugin_arn

WaitedMinutes == IF tool = SetupTool THEN SetupPluginWaitMinutes ELSE args.max_wait_minutes

WaitFailedText(text) == <<Failed, " to wait for ", WaitedKind, " status: ">> \o text

Invoke_wait_tool ==
    /\ pc = "idle"
    /\ \E t \in WaitTools, m \in 0..MaxWaitMinutes :
          \E a \in ParamChoices(<<IF t = "wait_for_connector_ready"
                                  THEN "connector_arn" ELSE "plugin_arn">>) :
              /\ tool' = t
              /\ args' = Extend(a, [max_wait_minutes |-> m])
    /\ pc' = "wait_enter"
    /\ UNCHANGED <<log, results, plugin_arn, wait_result, ret>>
    /\ UNCHANGED <<pollerVars, otherVars>>

\* lines 955-956, 1724-1725: except Exception
WaitFailedReturn(text, calls) ==
    /\ wait_result' = WaitFailedText(text)
    /\ log' = log \o calls
    /\ pc' = "wait_exit"
    /\ UNCHANGED <<tool, args, results, plugin_arn, ret>>
    /\ UNCHANGED <<pollerVars, otherVars>>

\* lines 932-948, 1699-1716: validation, the client, and the call of
\* wait_for_resource_state
WaitEnter ==
    /\ pc = "wait_enter"
    /\ \E c \in ClientOutcomes :
          LET field == IF WaitedKind = "connector" THEN "connector_arn" ELSE "plugin_arn"
              v == validate_required_params([f \in {field} |-> WaitedArn], <<field>>)
              client == get_kafka_connect_client(c)
              wait_args == IF WaitedKind = "connector"
                           THEN ConnectorWaitArgs(WaitedMinutes)
                           ELSE PluginWaitArgs(WaitedMinutes)
          IN  IF v.raised THEN WaitFailedReturn(v.text, <<>>)
              ELSE IF client.raised THEN WaitFailedReturn(client.text, <<client.call>>)
              ELSE /\ WaitStart([wait_args EXCEPT
                                   !.check_function.name = WaitedArn])
                   /\ log' = Append(log, client.call)
                   /\ pc' = "polling"
                   /\ UNCHANGED <<tool, args, results, plugin_arn, wait_result, ret>>
                   /\ UNCHANGED otherVars

WaitPollTest == pc = "polling" /\ PollTest /\ UNCHANGED <<toolVars, otherVars>>
WaitPollCheck == pc = "polling" /\ PollCheck /\ UNCHANGED <<toolVars, otherVars>>
WaitPollSleep == pc = "polling" /\ PollSleep /\ UNCHANGED <<toolVars, otherVars>>

\* lines 950-953, 1718-1721: the poll's result as the tool's text.  The clock
\* is read by wait_for_resource_state only and is not tracked outside of it.
WaitReturn ==
    /\ pc = "polling"
    /\ wpc = "done"
    /\ wait_result' = (IF wresult.success THEN <<CheckMark, " ">> ELSE <<CrossMark, " ">>)
                      \o wresult.message
    /\ pc' = "wait_exit"
    /\ wpc' = "idle"
    /\ now' = 0
    /\ start_time' = 0
    /\ UNCHANGED <<wargs, observed, sleeps, wresult>>
    /\ UNCHANGED <<tool, args, log, results, plugin_arn, ret>>
    /\ UNCHANGED otherVars

\* the wait tool returns to the MCP client
WaitToolExit ==
    /\ pc = "wait_exit"
    /\ tool \in WaitTools
    /\ ret' = wait_result
    /\ pc' = "done"
    /\ UNCHANGED <<tool, args, log, results, plugin_arn, wait_result>>
    /\ UNCHANGED <<pollerVars, otherVars>>

----------------------------------------------------------------------------
(* create_complete_mm2_setup *)

\* Mutant: only the last entry of results is returned.
ReportLastOnly(lines) == lines[Len(lines)]

\* "\n".join(results)
Report(lines) == Join(lines, <<NewLine>>)

\* lines 2100-2114: the call, and the validation of the parameters
Invoke_create_complete_mm2_setup ==
    /\ pc = "idle"
    /\ \E p \in ParamChoices(SetupRequired), auth \in SetupAuthChoices :
          LET v == validate_required_params(p, SetupRequired)
          IN  /\ tool' = SetupTool
              /\ args' = Extend(p, auth)
              /\ IF v.raised
                 THEN /\ ret' = <<"Error occurred while creating complete setup: ">> \o v.text
                      /\ pc' = "done"
                 ELSE /\ ret' = ret
                      /\ pc' = "step1"
    /\ UNCHANGED <<log, results, plugin_arn, wait_result>>
    /\ UNCHANGED <<pollerVars, otherVars>>

\* line 2126: plugin_result.split("ARN: ")[1].split(",")[0]
ExtractArn(plugin_result) == SplitPart0(SplitPart1(plugin_result, ArnLabel), Comma)

\* Mutant: results is not a new list in each invocation.
SetupStep1KeepingResults ==
    /\ pc = "step1"
    /\ \E e \in Envs :
          LET plugin_result ==
                  create_custom_plugin(args.plugin_name, args.s3_bucket, args.s3_key, e)
              lines == results \o <<<<"Step 1: Creating custom plugin...">>, plugin_result.text>>
          IN  /\ log' = log \o plugin_result.calls
              /\ IF Contains(plugin_result.text, Failed)
                 THEN /\ results' = lines
                      /\ ret' = Report(lines)
                      /\ pc' = "done"
                      /\ plugin_arn' = plugin_arn
                 ELSE IF ~Contains(plugin_result.text, ArnLabel)
                 THEN /\ results' = lines
                      /\ ret' = Report(Append(lines,
                                   <<"Error: Unable to extract ARN from plugin creation result">>))
                      /\ pc' = "done"
                      /\ plugin_arn' = plugin_arn
                 ELSE /\ plugin_arn' = ExtractArn(plugin_result.text)
                      /\ results' = Append(lines,
                                       <<NewLine, "Step 2: Waiting for plugin to be ready...">>)
                      /\ ret' = ret
                      /\ pc' = "wait_enter"
    /\ UNCHANGED <<tool, args, wait_result>>
    /\ UNCHANGED <<pollerVars, otherVars>>

\* lines 2116-2131: step 1, the extraction of the plugin ARN, and the heading of
\* step 2
SetupStep1 ==
    /\ pc = "step1"
    /\ \E e \in Envs :
          LET plugin_result ==
                  create_custom_plugin(args.plugin_name, args.s3_bucket, args.s3_key, e)
              lines == <<<<"Step 1: Creating custom plugin...">>, plugin_result.text>>
          IN  /\ log' = log \o plugin_result.calls
              /\ IF Contains(plugin_result.text, Failed)
                 THEN /\ results' = lines
                      /\ ret' = Report(lines)
                      /\ pc' = "done"
                      /\ plugin_arn' = plugin_arn
                 ELSE IF ~Contains(plugin_result.text, ArnLabel)
                 THEN /\ results' = lines
                      /\ ret' = Report(Append(lines,
                                   <<"Error: Unable to extract ARN from plugin creation result">>))
                      /\ pc' = "done"
                      /\ plugin_arn' = plugin_arn
                 ELSE /\ plugin_arn' = ExtractArn(plugin_result.text)
                      /\ results' = Append(lines,
                                       <<NewLine, "Step 2: Waiting for plugin to be ready...">>)
                      /\ ret' = ret
                      /\ pc' = "wait_enter"
    /\ UNCHANGED <<tool, args, wait_result>>
    /\ UNCHANGED <<pollerVars, otherVars>>

\* lines 2132-2136: wait_result is appended and searched for the cross mark
SetupStep2 ==
    /\ pc = "wait_exit"
    /\ tool = SetupTool
    /\ results' = Append(results, wait_result)
    /\ IF Contains(wait_result, CrossMark)
       THEN /\ ret' = Report(results')
            /\ pc' = "done"
       ELSE /\ ret' = ret
            /\ pc' = "step3"
    /\ UNCHANGED <<tool, args, log, plugin_arn, wait_result>>
    /\ UNCHANGED <<pollerVars, otherVars>>

\* the arguments create_complete_mm2_setup passes to a connector tool; the
\* user names and passwords are left at their default, None
ConnectorArgsOfSetup(suffix) ==
    [connector_name |-> args.plugin_name \o <<suffix>>,
     source_bootstrap_servers |-> args.source_bootstrap_servers,
     target_bootstrap_servers |-> args.target_bootstrap_servers,
     plugin_arn |-> plugin_arn,
     service_execution_role_arn |-> args.service_execution_role_arn,
     vpc_subnets |-> args.vpc_subnets,
     vpc_security_groups |-> args.vpc_security_groups,
     source_auth_type |-> args.source_auth_type,
     target_auth_type |-> args.target_auth_type,
     source_role_arn |-> args.source_role_arn,
     target_role_arn |-> args.target_role_arn,
     source_username |-> <<>>, source_password |-> <<>>,
     target_username |-> <<>>, target_password |-> <<>>]

StepHeading(kind) ==
    CASE kind = "Heartbeat" -> <<NewLine, "Step 3: Creating MirrorHeartbeatConnector...">>
      [] kind = "Checkpoint" -> <<NewLine, "Step 4: Creating MirrorCheckpointConnector...">>
      [] kind = "Source" -> <<NewLine, "Step 5: Creating MirrorSourceConnector...">>

NameSuffix(kind) ==
    CASE kind = "Heartbeat" -> "-heartbeat"
      [] kind = "Checkpoint" -> "-checkpoint"
      [] kind = "Source" -> "-source"

\* a connector step: the heading, the call of the connector tool, its result
ConnectorStep(kind, e) ==
    LET r == create_mirror_connector(kind, ConnectorArgsOfSetup(NameSuffix(kind)), e)
    IN  /\ results' = results \o <<StepHeading(kind), r.text>>
        /\ log' = log \o r.calls

Finished == <<NewLine, CheckMark, " MirrorMaker2 complete setup creation finished!">>

\* lines 2138-2153
SetupStep3 ==
    /\ pc = "step3"
    /\ \E e \in Envs : ConnectorStep("Heartbeat", e)
    /\ pc' = "step4"
    /\ UNCHANGED <<tool, args, plugin_arn, wait_result, ret>>
    /\ UNCHANGED <<pollerVars, otherVars>>

\* lines 2155-2170
SetupStep4 ==
    /\ pc = "step4"
    /\ \E e \in Envs : ConnectorStep("Checkpoint", e)
    /\ pc' = "step5"
    /\ UNCHANGED <<tool, args, plugin_arn, wait_result, ret>>
    /\ UNCHANGED <<pollerVars, otherVars>>

\* lines 2172-2195
SetupStep5 ==
    /\ pc = "step5"
    /\ \E e \in Envs :
          LET r == create_mirror_connector("Source", ConnectorArgsOfSetup(NameSuffix("Source")), e)
              lines == results \o <<StepHeading("Source"), r.text, Finished,
                          <<NewLine, "Recommended verification steps:">>,
                          <<"1. Use check_connector_status to verify all component states">>,
                          <<"2. Verify heartbeat topic creation">>,
                          <<"3. Check if data replication is working properly">>>>
          IN  /\ results' = lines
              /\ log' = log \o r.calls
              /\ ret' = Report(lines)
    /\ pc' = "done"
    /\ UNCHANGED <<tool, args, plugin_arn, wait_result>>
    /\ UNCHANGED <<pollerVars, otherVars>>

\* the result texts of the five steps in a results list: every step succeeded
EveryStepSucceeded(lines) ==
    /\ Len(lines) >= 10
    /\ lines[2][1] = "Plugin creation started: "
    /\ lines[4][1] = CheckMark
    /\ \A i \in {6, 8, 10} : lines[i][1] = "Successfully created "

\* the requests of a run that create a resource
CreateCalls(calls) ==
    SelectSeq(calls, LAMBDA c : c.call \in {"create_custom_plugin", "create_connector"})

\* lines 2082-2114: the caller invokes create_complete_mm2_setup once more,
\* with the arguments of a run in which every step succeeded (they pass the
\* validation again).  What the first run created is still there; its locals
\* are gone, the clock is only ever read relative to start_time, and log
\* starts again for the new run.
SetupAgain ==
    /\ pc = "done"
    /\ tool = SetupTool
    /\ prior = NoPrior
    /\ EveryStepSucceeded(results)
    /\ prior' = [ret |-> ret, created |-> CreateCalls(log)]
    /\ log' = <<>>
    /\ plugin_arn' = None
    /\ wait_result' = None
    /\ ret' = None
    /\ pc' = "step1"
    /\ now' = 0
    /\ start_time' = 0
    /\ observed' = <<>>
    /\ sleeps' = 0
    /\ wresult' = NoResult
    /\ UNCHANGED <<tool, args, results, wpc, wargs>>
    /\ UNCHANGED <<configVars, domainVars>>

Next ==
    \/ Tool_create_custom_plugin
    \/ Tool_create_worker_configuration
    \/ Tool_update_connector
    \/ Tool_delete
    \/ Tool_create_mirror_connector
    \/ Invoke_wait_tool
    \/ WaitEnter
    \/ WaitPollTest
    \/ WaitPollCheck
    \/ WaitPollSleep
    \/ WaitReturn
    \/ WaitToolExit
    \/ Invoke_create_complete_mm2_setup
    \/ SetupStep1
    \/ SetupStep2
    \/ SetupStep3
    \/ SetupStep4
    \/ SetupStep5

Spec == Init /\ [][Next]_vars

\* two runs of create_complete_mm2_setup by one caller
NextRerun ==
    \/ Invoke_create_complete_mm2_setup
    \/ SetupStep1
    \/ WaitEnter
    \/ WaitPollTest
    \/ WaitPollCheck
    \/ WaitPollSleep
    \/ WaitReturn
    \/ SetupStep2
    \/ SetupStep3
    \/ SetupStep4
    \/ SetupStep5
    \/ SetupAgain

SpecRerun == Init /\ [][NextRerun]_vars

----------------------------------------------------------------------------
(* Properties of wait_for_resource_state *)

Elapsed == now - start_time
Checks == Len(observed)
Returned == wpc = "done"

\* C6: when the n-th check returns a target state and no earlier check returned
\* a failure state or raised, the poller has returned success=True with that
\* state after exactly n invocations of check_function.
C6_SuccessAfterExactlyNChecks ==
    \A n \in 1..Checks :
        ( /\ observed[n] \in wargs.target_states
          /\ \A k \in 1..(n - 1) :
                observed[k] # Raised /\ observed[k] \notin wargs.failure_states )
        => /\ Returned
           /\ Checks = n
           /\ wresult.success = TRUE
           /\ wresult.state = observed[n]

\* A run that needed more than one check and ended in success.
C6_Witness ==
    /\ Returned
    /\ wresult.success
    /\ Checks >= 2
    /\ observed[Checks] \in wargs.target_states

\* C7: when a failure state is returned before any target state, the poller
\* returns success=False with that state at that very check: no check and no
\* sleep follows it.  For plugins the failure states are CREATE_FAILED and
\* DELETING, for connectors FAILED and DELETING.
FailureReturnedAt(n, failures) ==
    ( /\ observed[n] \in failures
      /\ \A k \in 1..(n - 1) :
            observed[k] # Raised /\ observed[k] \notin wargs.target_states )
    => /\ Returned
       /\ Checks = n
       /\ sleeps = n - 1
       /\ wresult.success = FALSE
       /\ wresult.state = observed[n]

C7_FailureStateIsTerminal ==
    \A n \in 1..Checks :
        /\ FailureReturnedAt(n, wargs.failure_states)
        /\ wargs.resource_name = "Plugin"
              => FailureReturnedAt(n, {"CREATE_FAILED", "DELETING"})
        /\ wargs.resource_name = "Connector"
              => FailureReturnedAt(n, {"FAILED", "DELETING"})

\* A plugin poll that saw CREATING and then a failure state.
C7_Witness ==
    /\ Returned
    /\ wargs.resource_name = "Plugin"
    /\ Checks >= 2
    /\ observed[Checks] \in {"CREATE_FAILED", "DELETING"}
    /\ wresult.success = FALSE

C9_CheckErrorIsTerminal ==
    /\ \A n \in 1..Checks :
          observed[n] = Raised =>
              /\ Returned
              /\ Checks = n
              /\ sleeps = n - 1
              /\ wresult.success = FALSE
              /\ wresult.state = "ERROR"
    /\ \A n \in 1..(Checks - 1) : InProgress(observed[n])
    /\ (wpc = "sleep" \/ sleeps = Checks) =>
          (Checks >= 1 => InProgress(observed[Checks]))

\* A poll whose second check raised.
C9_Witness ==
    /\ Returned
    /\ Checks = 2
    /\ observed[2] = Raised
    /\ wresult.state = "ERROR"

\* C10: the poller never starts a check once the elapsed time has reached
\* max_wait_seconds, returns TIMEOUT only when it has, always returns, and
\* returns TIMEOUT when no check returned a target or failure state or raised.
C10_TimeBoundedAndTerminates ==
    /\ [](wpc = "check" => Elapsed < wargs.max_wait_seconds)
    /\ []((Returned /\ wresult.state = "TIMEOUT")
             => Elapsed >= wargs.max_wait_seconds)
    /\ []((Returned /\ \A n \in 1..Checks : InProgress(observed[n]))
             => (wresult.success = FALSE /\ wresult.state = "TIMEOUT"))
    /\ <>Returned

\* A poll that timed out after several cycles, every check still in progress.
C10_Witness ==
    /\ Returned
    /\ wresult.state = "TIMEOUT"
    /\ Checks >= 3
    /\ sleeps = Checks
    /\ Elapsed >= wargs.max_wait_seconds

----------------------------------------------------------------------------
(* Properties of the tools and of create_complete_mm2_setup *)

InSetup == tool = SetupTool

\* the five steps of create_complete_mm2_setup, by the heading each puts in the
\* report
HeadingText(k) ==
    CASE k = 1 -> "Step 1: Creating custom plugin..."
      [] k = 2 -> "Step 2: Waiting for plugin to be ready..."
      [] k = 3 -> "Step 3: Creating MirrorHeartbeatConnector..."
      [] k = 4 -> "Step 4: Creating MirrorCheckpointConnector..."
      [] k = 5 -> "Step 5: Creating MirrorSourceConnector..."

Heading(k) == IF k = 1 THEN <<HeadingText(1)>> ELSE <<NewLine, HeadingText(k)>>

\* step k was attempted: its result is in results, right after its heading
StepAttempted(k) ==
    /\ Contains(results, Heading(k))
    /\ IndexOf(results, Heading(k)) < Len(results)

StepResult(k) == results[IndexOf(results, Heading(k)) + 1]

StepSucceeded(k) ==
    /\ StepAttempted(k)
    /\ StepResult(k)[1] = (CASE k = 1 -> "Plugin creation started: "
                             [] k = 2 -> CheckMark
                             [] OTHER -> "Successfully created ")

StepFailed(k) == StepAttempted(k) /\ ~StepSucceeded(k)

\* the create and describe requests of step k
CallOfStep(k, c) ==
    CASE k = 1 -> c.call = "create_custom_plugin"
      [] k = 2 -> c.call = "describe_custom_plugin"
      [] k = 3 -> c.call = "create_connector" /\ c.name = args.plugin_name \o <<"-heartbeat">>
      [] k = 4 -> c.call = "create_connector" /\ c.name = args.plugin_name \o <<"-checkpoint">>
      [] k = 5 -> c.call = "create_connector" /\ c.name = args.plugin_name \o <<"-source">>

StepIssued(k) == \E i \in 1..Len(log) : CallOfStep(k, log[i])

StepReported(k) ==
    \/ Contains(results, Heading(k))
    \/ pc = "done" /\ Contains(ret, HeadingText(k))

ClaimsCompletion ==
    pc = "done" /\ Contains(ret, " MirrorMaker2 complete setup creation finished!")

\* C1: once a step of create_complete_mm2_setup has failed, no request of a
\* later step is issued and the report has no entry of a later step.
C1_PipelineShortCircuit ==
    InSetup =>
        \A k \in 1..4 :
            StepFailed(k) =>
                \A j \in (k + 1)..5 : ~StepIssued(j) /\ ~StepReported(j)

\* C2: create_complete_mm2_setup reports completion only if every one of its
\* five steps was executed and succeeded.
C2_CompletionOnlyIfAllSucceeded ==
    (InSetup /\ ClaimsCompletion) => \A k \in 1..5 : StepSucceeded(k)

\* C3: in create_complete_mm2_setup a connector is created only after the plugin
\* poll observed the plugin ACTIVE.
C3_ConnectorsOnlyAfterPluginActive ==
    (InSetup /\ \E i \in 1..Len(log) : log[i].call = "create_connector")
        => /\ observed # <<>>
           /\ observed[Len(observed)] = "ACTIVE"

\* the fields each tool passes to validate_required_params
RequiredOf(t) ==
    CASE t = "create_custom_plugin" -> <<"plugin_name", "s3_bucket", "s3_key">>
      [] t = "create_worker_configuration" -> <<"worker_config_name", "properties">>
      [] t = "update_connector" ->
            <<"connector_arn", "connector_configuration", "current_version">>
      [] t \in DeleteTools -> DeleteRequired(t)
      [] t \in {ConnectorTool(kind) : kind \in ConnectorKinds} -> ConnectorRequired
      [] t = "wait_for_plugin_ready" -> <<"plugin_arn">>
      [] t = "wait_for_connector_ready" -> <<"connector_arn">>
      [] t = SetupTool -> SetupRequired

ParameterMissing ==
    /\ tool # None
    /\ \E i \in 1..Len(RequiredOf(tool)) : args[RequiredOf(tool)[i]] = <<>>

\* C4: a tool invoked with a required parameter missing or empty issues no
\* external call, not even the creation of a client, and returns the error that
\* names the missing parameters.
C4_ValidationBeforeAnyExternalCall ==
    ParameterMissing =>
        /\ log = <<>>
        /\ wpc = "idle"
        /\ pc = "done" =>
              /\ Contains(ret, "Missing required parameters: ")
              /\ \A i \in 1..Len(RequiredOf(tool)) :
                    args[RequiredOf(tool)[i]] = <<>> => Contains(ret, RequiredOf(tool)[i])

\* A connector tool that returned the validation error for its plugin_arn.
C4_Witness ==
    /\ tool = "create_mirror_heartbeat_connector"
    /\ pc = "done"
    /\ args.plugin_arn = <<>>
    /\ log = <<>>
    /\ Contains(ret, "plugin_arn")

\* the authentication specification of one cluster is invalid
InvalidAuthSpec(auth_type, role_arn, username, password) ==
    \/ Lower(auth_type) = "iam" /\ role_arn = <<>>
    \/ Lower(auth_type) = "scram" /\ (username = <<>> \/ password = <<>>)
    \/ Lower(auth_type) \notin {"iam", "plaintext", "scram"}

InvalidAuthArgs ==
    IF InSetup
    THEN \/ InvalidAuthSpec(args.source_auth_type, args.source_role_arn, <<>>, <<>>)
         \/ InvalidAuthSpec(args.target_auth_type, args.target_role_arn, <<>>, <<>>)
    ELSE /\ tool \in {ConnectorTool(kind) : kind \in ConnectorKinds}
         /\ \/ InvalidAuthSpec(args.source_auth_type, args.source_role_arn,
                               args.source_username, args.source_password)
            \/ InvalidAuthSpec(args.target_auth_type, args.target_role_arn,
                               args.target_username, args.target_password)

\* C5: with an invalid source or target authentication specification, the
\* connector tools and create_complete_mm2_setup create no plugin and no
\* connector.
C5_InvalidAuthBeforeAnySideEffect ==
    InvalidAuthArgs =>
        \A i \in 1..Len(log) :
            log[i].call \notin {"create_custom_plugin", "create_connector"}

----------------------------------------------------------------------------
(* Cancellation of wait_for_resource_state *)

\* C11: wait_for_resource_state honours an external deadline shorter than
\* max_wait_seconds: once the deadline has passed, which is when the caller
\* requests cancellation, it starts no further invocation of check_function.
\* The function has no parameter for a deadline or a cancellation request and
\* its loop reads none (lines 136-143, 166), so the deadline is any number of
\* seconds below max_wait_seconds.
C11_NoCheckAfterExternalDeadline ==
    \A deadline \in 1..(wargs.max_wait_seconds - 1) :
        wpc = "check" => Elapsed < deadline

----------------------------------------------------------------------------
(* The construction of connector_config by a connector tool, one statement  *)
(* at a time, from authentication arguments drawn from bounded sets        *)

AuthInputTypes == {"iam", "IAM", "plaintext", "PLAINTEXT", "scram", "SCRAM", "kerberos"}

\* role_arn, username and password, each absent or present
AuthInputCredentials ==
    [role_arn : RoleArnChoices, username : {<<>>, <<"alice">>},
     password : {<<>>, <<"s3cret">>}]

AuthInputs ==
    {[source_auth_type |-> st, target_auth_type |-> tt,
      source_role_arn |-> sc.role_arn, target_role_arn |-> tc.role_arn,
      source_username |-> sc.username, source_password |-> sc.password,
      target_username |-> tc.username, target_password |-> tc.password] :
        st \in AuthInputTypes, tt \in AuthInputTypes,
        sc \in AuthInputCredentials, tc \in AuthInputCredentials}

KindOfTool == CHOOSE kind \in ConnectorKinds : ConnectorTool(kind) = tool

\* generate_cluster_auth_config(alias, <alias>_auth_type, <alias>_role_arn,
\* <alias>_username, <alias>_password), as the connector tools call it
AuthConfigFor(cluster_alias, a) ==
    IF cluster_alias = "source"
    THEN generate_cluster_auth_config("source", a.source_auth_type, a.source_role_arn,
                                      a.source_username, a.source_password)
    ELSE generate_cluster_auth_config("target", a.target_auth_type, a.target_role_arn,
                                      a.target_username, a.target_password)

\* A connector tool has validated its parameters and created its client.
InitAuth ==
    /\ tool \in {ConnectorTool(kind) : kind \in ConnectorKinds}
    /\ pc = "config"
    /\ args \in {Extend([f \in SeqToSet(ConnectorRequired) |-> Sample(f)], auth) :
                     auth \in AuthInputs}
    /\ results = <<>>
    /\ plugin_arn = None
    /\ wait_result = None
    /\ ret = None
    /\ log = <<>>
    /\ now = 0
    /\ start_time = 0
    /\ observed = <<>>
    /\ sleeps = 0
    /\ wresult = NoResult
    /\ wpc = "idle"
    /\ wargs = NoArgs
    /\ OthersIdle

\* lines 1126-1143, 1307-1331, 1493-1520: connector_config = {...}
BuildConnectorConfig ==
    /\ pc = "config"
    /\ connector_config' = BaseConnectorConfig(KindOfTool, args)
    /\ pc' = "source_auth"
    /\ UNCHANGED <<tool, args, log, results, plugin_arn, wait_result, ret>>
    /\ UNCHANGED <<pollerVars, domainVars, callerVars>>

\* the message a connector tool returns on the ValueError of cluster_alias
AuthErrorText(cluster_alias, text) ==
    (IF KindOfTool = "Heartbeat"
     THEN <<IF cluster_alias = "source"
            THEN "Source cluster authentication configuration error: "
            ELSE "Target cluster authentication configuration error: ">>
     ELSE <<"Authentication configuration error: ">>) \o text

\* connector_config.update(generate_cluster_auth_config(cluster_alias, ...)),
\* or the return on ValueError
AddAuthConfig(cluster_alias, next_pc) ==
    LET auth_config == AuthConfigFor(cluster_alias, args)
    IN  IF auth_config.raised
        THEN /\ ret' = AuthErrorText(cluster_alias, auth_config.text)
             /\ pc' = "done"
             /\ UNCHANGED connector_config
        ELSE /\ connector_config' = Update(connector_config, auth_config.config)
             /\ pc' = next_pc
             /\ UNCHANGED ret

\* lines 1146-1152, 1335-1338, 1524-1527
AddSourceAuth ==
    /\ pc = "source_auth"
    /\ AddAuthConfig("source", "target_auth")
    /\ UNCHANGED <<tool, args, log, results, plugin_arn, wait_result>>
    /\ UNCHANGED <<pollerVars, domainVars, callerVars>>

\* lines 1155-1161, 1340-1345, 1529-1534
AddTargetAuth ==
    /\ pc = "target_auth"
    /\ AddAuthConfig("target", "configured")
    /\ UNCHANGED <<tool, args, log, results, plugin_arn, wait_result>>
    /\ UNCHANGED <<pollerVars, domainVars, callerVars>>

NextAuth == BuildConnectorConfig \/ AddSourceAuth \/ AddTargetAuth

SpecAuth == InitAuth /\ [][NextAuth]_vars

----------------------------------------------------------------------------
(* Properties of generate_cluster_auth_config *)

BuildingConfig == pc \in {"config", "source_auth", "target_auth", "configured", "done"}

SourceSpecInvalid ==
    InvalidAuthSpec(args.source_auth_type, args.source_role_arn,
                    args.source_username, args.source_password)

TargetSpecInvalid ==
    InvalidAuthSpec(args.target_auth_type, args.target_role_arn,
                    args.target_username, args.target_password)

\* C12: generate_cluster_auth_config fails exactly when the mechanism is IAM
\* and the role ARN is absent, or it is SCRAM and the username or the password
\* is absent, or it is none of IAM, PLAINTEXT and SCRAM; for every other input
\* it returns a mapping.
C12_AuthConfigFailsExactlyOnInvalidSpec ==
    BuildingConfig =>
        /\ AuthConfigFor("source", args).raised <=> SourceSpecInvalid
        /\ AuthConfigFor("target", args).raised <=> TargetSpecInvalid
        /\ \A cluster_alias \in {"source", "target"} :
              LET r == AuthConfigFor(cluster_alias, args)
              IN  ~r.raised => /\ DOMAIN r.config # {}
                               /\ r.config \in [DOMAIN r.config -> Seq(STRING)]
        /\ pc \in {"target_auth", "configured"} => ~SourceSpecInvalid
        /\ pc = "configured" => ~TargetSpecInvalid
        /\ pc = "done" => (SourceSpecInvalid \/ TargetSpecInvalid)

\* The source cluster passed with upper-case IAM and a role ARN, and the tool
\* returned the error of a target cluster with SCRAM and no password.
C12_Witness ==
    /\ pc = "done"
    /\ args.source_auth_type = "IAM"
    /\ args.source_role_arn # <<>>
    /\ args.target_auth_type = "scram"
    /\ args.target_username # <<>>
    /\ args.target_password = <<>>
    /\ Contains(ret, "Username and password are required for SCRAM authentication on ")
    /\ DOMAIN connector_config # {}

\* key starts with f"{cluster_alias}.cluster."
HasClusterPrefix(key, cluster_alias) ==
    Len(key) >= 2 /\ key[1] = cluster_alias /\ key[2] = ".cluster."

AuthKeys(cluster_alias) == DOMAIN AuthConfigFor(cluster_alias, args).config

BaseKeys == DOMAIN BaseConnectorConfig(KindOfTool, args)

\* C13: every key generate_cluster_auth_config produces for an alias starts
\* with '<alias>.cluster.', the key sets of 'source' and 'target' are disjoint,
\* and merging the two mappings into connector_config overwrites neither each
\* other's entries nor the base entries of the connector.
C13_AuthKeysNamespacedByAlias ==
    BuildingConfig =>
        LET base == BaseConnectorConfig(KindOfTool, args)
            source == AuthConfigFor("source", args)
            target == AuthConfigFor("target", args)
        IN  /\ ~source.raised =>
                  \A k \in DOMAIN source.config : HasClusterPrefix(k, "source")
            /\ ~target.raised =>
                  \A k \in DOMAIN target.config : HasClusterPrefix(k, "target")
            /\ (~source.raised /\ ~target.raised) =>
                  DOMAIN source.config \cap DOMAIN target.config = {}
            /\ pc \in {"target_auth", "configured"} =>
                  /\ \A k \in DOMAIN base : connector_config[k] = base[k]
                  /\ \A k \in DOMAIN source.config :
                        connector_config[k] = source.config[k]
            /\ pc = "configured" =>
                  /\ \A k \in DOMAIN target.config :
                        connector_config[k] = target.config[k]
                  /\ Cardinality(DOMAIN connector_config)
                        = Cardinality(DOMAIN base) + Cardinality(DOMAIN source.config)
                          + Cardinality(DOMAIN target.config)

\* A connector_config into which an IAM source mapping and a SCRAM target
\* mapping were merged.
C13_Witness ==
    /\ pc = "configured"
    /\ Lower(args.source_auth_type) = "iam"
    /\ Lower(args.target_auth_type) = "scram"
    /\ ClusterKey("source", "sasl.jaas.config") \in DOMAIN connector_config
    /\ ClusterKey("target", "sasl.jaas.config") \in DOMAIN connector_config
    /\ ClusterKey("source", "bootstrap.servers") \in DOMAIN connector_config

----------------------------------------------------------------------------
(* The MSK Route53 MCP server (src/src/msk_custom_domain/server.py):        *)
(* the world it reads and the helpers of its tools                         *)

\* a cluster has 0..MaxBrokers addresses in its BootstrapBrokerString
MaxBrokers == 2

\* 'TTL': 300
RecordTtl == 300

PrimaryRegion == "us-east-1"
DrRegion == "us-west-2"
PrimaryCluster == "msk-primary"
DrCluster == "msk-dr"
PrimaryVpc == "vpc-1"
DrVpc == "vpc-2"

\* the VPC of the first client subnet of a cluster
VpcOfCluster(region, cluster_name) ==
    IF region = DrRegion /\ cluster_name = DrCluster THEN DrVpc ELSE PrimaryVpc

\* an entry of the VPCs of a hosted zone
Vpc(region, vpc_id) == [VPCRegion |-> region, VPCId |-> vpc_id]

\* every association the hosted zone may have
VpcPairs == {Vpc(r, v) : r \in {PrimaryRegion, DrRegion}, v \in {PrimaryVpc, DrVpc}}

\* the Name of the private hosted zone, as Route53 lists it
HostedZoneName == <<"kafka.example.com", ".">>

\* Python's `not value` for an Optional[str]
Absent(value) == value \in {None, ""}

\* lines 153-154, 212-213, 356-357: zone_name with the final dot
WithFinalDot(zone_name) ==
    IF zone_name # <<>> /\ zone_name[Len(zone_name)] = "."
    THEN zone_name
    ELSE zone_name \o <<".">>

\* zone_name[:-1], zone_name ending with the dot
WithoutLastChar(zone_name) == SubSeq(zone_name, 1, Len(zone_name) - 1)

\* the i-th broker of a cluster, as host:port
BrokerHost(cluster_name, i) == "b-" \o ToString(i) \o "." \o cluster_name
BrokerAddress(cluster_name, i) == <<BrokerHost(cluster_name, i), ":", "9092">>

\* the BootstrapBrokerString of a cluster with n brokers
BootstrapBrokerString(cluster_name, n) ==
    Join([i \in 1..n |-> BrokerAddress(cluster_name, i)], <<Comma>>)

\* Python's text.split(sep) of a non-empty text
RECURSIVE Split(_, _)
Split(text, sep) ==
    IF Contains(text, sep)
    THEN <<SplitPart0(text, sep)>>
         \o Split(SubSeq(text, IndexOf(text, sep) + 1, Len(text)), sep)
    ELSE <<text>>

\* a helper's return value, or the exception that left it
Value(v) == [raised |-> FALSE, value |-> v]
Raises == [raised |-> TRUE, value |-> [exception |-> "Exception"]]

\* `"error" in info`
IsError(info) == "error" \in DOMAIN info

ClusterNotFound(region, cluster_name) ==
    [error |-> <<"Cluster '", cluster_name, "' not found in region ", region>>]

VpcOutcomes == {"ok", "cluster_not_found", "no_subnet", "no_vpc", "raises"}
BrokerOutcomes == {"ok", "cluster_not_found", "raises"}
ZoneOutcomes == {"ok", "not_found", "raises"}

\* lines 114-135, with msk_cluster_info (lines 17-38) which it calls first
vpc_for_msk_cluster(region, cluster_name, outcome) ==
    CASE outcome = "raises" -> Raises
      [] outcome = "cluster_not_found" -> Value(ClusterNotFound(region, cluster_name))
      [] outcome = "no_subnet" ->
            Value([error |-> <<"Could not retrieve subnet information from cluster">>])
      [] outcome = "no_vpc" ->
            Value([error |-> <<"Could not retrieve VPC information from subnet">>])
      [] OTHER -> Value([vpc_id |-> VpcOfCluster(region, cluster_name),
                         subnet_id |-> "subnet-1"])

\* lines 51-98: n is the number of addresses in BootstrapBrokerString
msk_broker_info(region, cluster_name, outcome, n) ==
    CASE outcome = "raises" -> Raises
      [] outcome = "cluster_not_found" -> Value(ClusterNotFound(region, cluster_name))
      [] OTHER ->
            Value([cluster_arn |-> <<"arn:aws:kafka:", region, ":cluster/", cluster_name>>,
                   broker_addresses |->
                       IF BootstrapBrokerString(cluster_name, n) # <<>>
                       THEN Split(BootstrapBrokerString(cluster_name, n), Comma)
                       ELSE <<>>])

\* lines 151-176: current is the VPCs list of get_hosted_zone
route53_hosted_zone_info(zone_name, outcome, current) ==
    CASE outcome = "raises" -> Raises
      [] outcome = "not_found" \/ WithFinalDot(zone_name) # HostedZoneName ->
            Value([error |-> <<"Hosted zone '">> \o WithFinalDot(zone_name)
                             \o <<"' not found">>])
      [] OTHER -> Value([zone_id |-> "Z1", zone_info |-> [VPCs |-> current]])

\* the lists that enumerate a set, each element once
Orderings(S) ==
    {q \in [1..Cardinality(S) -> S] : \A i, j \in 1..Cardinality(S) : q[i] = q[j] => i = j}

----------------------------------------------------------------------------
(* The invocations of the custom-domain tools.  One step per helper call   *)
(* and per Route53 request.                                                *)

mm2Vars == <<pollerVars, toolVars, log, configVars, callerVars>>

\* the locals of an invocation of op that starts at first_pc
Started(op, a, first_pc) ==
    [op |-> op, pc |-> first_pc, step |-> None, args |-> a,
     primary_vpc_id |-> a.primary_vpc_id, dr_vpc_id |-> a.dr_vpc_id,
     zone_name |-> a.zone_name, zone_info |-> None, broker_info |-> None,
     todo |-> <<>>, ret |-> None]

\* the invocation returns v, or is left by an exception, at its current step
Return(l, v) == [l EXCEPT !.ret = v, !.step = l.pc, !.pc = "done"]
Raise(l) == [l EXCEPT !.step = l.pc, !.pc = "raised"]

\* lines 336-338, 353
ActiveRegion(l) == IF l.args.activate_dr THEN l.args.dr_region ELSE l.args.primary_region
ActiveClusterName(l) ==
    IF l.args.activate_dr THEN l.args.dr_cluster_name ELSE l.args.primary_cluster_name
ActiveVpcId(l) == IF l.args.activate_dr THEN l.dr_vpc_id ELSE l.primary_vpc_id
ActiveVpc(l) == Vpc(ActiveRegion(l), ActiveVpcId(l))

\* What Route53 answers.  ConflictingDomainExists is its answer to the
\* association of a VPC the zone is already associated with (line 382).
AttachOutcomes(vpc) ==
    IF vpc \in zone_vpcs THEN {"ConflictingDomainExists", "Exception"}
    ELSE {"ok", "Exception"}
DetachOutcomes(vpc) == IF vpc \in zone_vpcs THEN {"ok", "Exception"} ELSE {"Exception"}
ChangeOutcomes(changes) == IF changes = <<>> THEN {"Exception"} ELSE {"ok", "Exception"}

VpcCall(p, call, vpc, outcome) ==
    [proc |-> p, call |-> call, vpc |-> vpc, outcome |-> outcome]
ChangeCall(p, changes, outcome) ==
    [proc |-> p, call |-> "change_resource_record_sets", changes |-> changes,
     outcome |-> outcome]

SwitchArgs ==
    [primary_region : {PrimaryRegion}, primary_cluster_name : {PrimaryCluster},
     dr_region : {DrRegion}, dr_cluster_name : {DrCluster},
     zone_name : {<<"kafka.example.com">>, HostedZoneName},
     primary_vpc_id : {None, PrimaryVpc}, dr_vpc_id : {None, "", DrVpc},
     activate_dr : BOOLEAN]

\* lines 309-338
Invoke_perform_dr_switch(p) ==
    /\ sw[p].pc = "idle"
    /\ \E a \in SwitchArgs :
          sw' = [sw EXCEPT ![p] = Started("perform_dr_switch", a, "resolve_primary")]
    /\ UNCHANGED <<zone_vpcs, zone_records, dcalls>>
    /\ UNCHANGED mm2Vars

\* Mutant: the primary endpoint is resolved only when it is the one activated.
ResolvePrimaryOnlyIfActive(p) ==
    /\ sw[p].pc = "resolve_primary"
    /\ LET l == sw[p]
       IN  IF Absent(l.primary_vpc_id) /\ ~l.args.activate_dr
           THEN \E outcome \in VpcOutcomes :
                   LET vpc_info == vpc_for_msk_cluster(l.args.primary_region,
                                                       l.args.primary_cluster_name, outcome)
                   IN  sw' = [sw EXCEPT ![p] =
                              IF vpc_info.raised THEN Raise(l)
                              ELSE IF IsError(vpc_info.value) THEN Return(l, vpc_info.value)
                              ELSE [l EXCEPT !.primary_vpc_id = vpc_info.value.vpc_id,
                                             !.pc = "resolve_dr"]]
           ELSE sw' = [sw EXCEPT ![p].pc = "resolve_dr"]
    /\ UNCHANGED <<zone_vpcs, zone_records, dcalls>>
    /\ UNCHANGED mm2Vars

\* lines 341-345
ResolvePrimary(p) ==
    /\ sw[p].pc = "resolve_primary"
    /\ LET l == sw[p]
       IN  IF Absent(l.primary_vpc_id)
           THEN \E outcome \in VpcOutcomes :
                   LET vpc_info == vpc_for_msk_cluster(l.args.primary_region,
                                                       l.args.primary_cluster_name, outcome)
                   IN  sw' = [sw EXCEPT ![p] =
                              IF vpc_info.raised THEN Raise(l)
                              ELSE IF IsError(vpc_info.value) THEN Return(l, vpc_info.value)
                              ELSE [l EXCEPT !.primary_vpc_id = vpc_info.value.vpc_id,
                                             !.pc = "resolve_dr"]]
           ELSE sw' = [sw EXCEPT ![p].pc = "resolve_dr"]
    /\ UNCHANGED <<zone_vpcs, zone_records, dcalls>>
    /\ UNCHANGED mm2Vars

\* lines 347-353
ResolveDr(p) ==
    /\ sw[p].pc = "resolve_dr"
    /\ LET l == sw[p]
       IN  IF Absent(l.dr_vpc_id)
           THEN \E outcome \in VpcOutcomes :
                   LET vpc_info == vpc_for_msk_cluster(l.args.dr_region,
                                                       l.args.dr_cluster_name, outcome)
                   IN  sw' = [sw EXCEPT ![p] =
                              IF vpc_info.raised THEN Raise(l)
                              ELSE IF IsError(vpc_info.value) THEN Return(l, vpc_info.value)
                              ELSE [l EXCEPT !.dr_vpc_id = vpc_info.value.vpc_id,
                                             !.pc = "zone"]]
           ELSE sw' = [sw EXCEPT ![p].pc = "zone"]
    /\ UNCHANGED <<zone_vpcs, zone_records, dcalls>>
    /\ UNCHANGED mm2Vars

\* lines 355-364: zone_info holds the VPCs the zone has at this moment
ZoneLookup(p) ==
    /\ sw[p].pc = "zone"
    /\ \E outcome \in ZoneOutcomes, current \in Orderings(zone_vpcs) :
          LET l == [sw[p] EXCEPT !.zone_name = WithFinalDot(@)]
              zone_info == route53_hosted_zone_info(l.zone_name, outcome, current)
          IN  sw' = [sw EXCEPT ![p] =
                     IF zone_info.raised THEN Raise(l)
                     ELSE IF IsError(zone_info.value) THEN Return(l, zone_info.value)
                     ELSE [l EXCEPT !.zone_info = zone_info.value, !.pc = "brokers"]]
    /\ UNCHANGED <<zone_vpcs, zone_records, dcalls>>
    /\ UNCHANGED mm2Vars

\* lines 366-369
BrokerLookup(p) ==
    /\ sw[p].pc = "brokers"
    /\ \E outcome \in BrokerOutcomes, n \in 0..MaxBrokers :
          LET l == sw[p]
              broker_info == msk_broker_info(ActiveRegion(l), ActiveClusterName(l), outcome, n)
          IN  sw' = [sw EXCEPT ![p] =
                     IF broker_info.raised THEN Raise(l)
                     ELSE IF IsError(broker_info.value) THEN Return(l, broker_info.value)
                     ELSE [l EXCEPT !.broker_info = broker_info.value, !.pc = "attach"]]
    /\ UNCHANGED <<zone_vpcs, zone_records, dcalls>>
    /\ UNCHANGED mm2Vars

\* Mutant: the associations are compared by VPC id only.
ToDetachByIdOnly(current_associations, active_vpc_id, active_region) ==
    SelectSeq(current_associations, LAMBDA vpc : vpc.VPCId # active_vpc_id)

\* lines 391-395: the entries of current_associations the loop issues a
\* disassociation for
ToDetach(current_associations, active_vpc_id, active_region) ==
    SelectSeq(current_associations,
              LAMBDA vpc : vpc.VPCId # active_vpc_id \/ vpc.VPCRegion # active_region)

\* Mutant: the active VPC is not associated before the others are disassociated.
AttachSkipped(p) ==
    /\ sw[p].pc = "attach"
    /\ LET l == sw[p]
           todo == ToDetach(l.zone_info.zone_info.VPCs, ActiveVpcId(l), ActiveRegion(l))
       IN  sw' = [sw EXCEPT ![p] =
                  [l EXCEPT !.todo = todo,
                            !.pc = IF todo = <<>> THEN "records" ELSE "detach"]]
    /\ UNCHANGED <<zone_vpcs, zone_records, dcalls>>
    /\ UNCHANGED mm2Vars

\* Mutant: ConflictingDomainExists is handled like any other exception.
AttachConflictIsFailure(p) ==
    /\ sw[p].pc = "attach"
    /\ LET l == sw[p]
           vpc == ActiveVpc(l)
       IN  \E outcome \in AttachOutcomes(vpc) :
              /\ dcalls' = Append(dcalls, VpcCall(p, "associate_vpc_with_hosted_zone",
                                                  vpc, outcome))
              /\ zone_vpcs' = IF outcome = "ok" THEN zone_vpcs \cup {vpc} ELSE zone_vpcs
              /\ sw' = [sw EXCEPT ![p] =
                        IF outcome # "ok"
                        THEN Return(l, [error |-> <<"Failed to associate VPC with hosted zone: ",
                                                    "<exception text>">>])
                        ELSE LET todo == ToDetach(l.zone_info.zone_info.VPCs,
                                                  ActiveVpcId(l), ActiveRegion(l))
                             IN  [l EXCEPT !.todo = todo,
                                           !.pc = IF todo = <<>> THEN "records"
                                                  ELSE "detach"]]
    /\ UNCHANGED zone_records
    /\ UNCHANGED mm2Vars

\* lines 371-388: the association of the active VPC; current_associations is
\* read from the zone_info of ZoneLookup
Attach(p) ==
    /\ sw[p].pc = "attach"
    /\ LET l == sw[p]
           vpc == ActiveVpc(l)
       IN  \E outcome \in AttachOutcomes(vpc) :
              /\ dcalls' = Append(dcalls, VpcCall(p, "associate_vpc_with_hosted_zone",
                                                  vpc, outcome))
              /\ zone_vpcs' = IF outcome = "ok" THEN zone_vpcs \cup {vpc} ELSE zone_vpcs
              /\ sw' = [sw EXCEPT ![p] =
                        IF outcome = "Exception"
                        THEN Return(l, [error |-> <<"Failed to associate VPC with hosted zone: ",
                                                    "<exception text>">>])
                        ELSE LET todo == ToDetach(l.zone_info.zone_info.VPCs,
                                                  ActiveVpcId(l), ActiveRegion(l))
                             IN  [l EXCEPT !.todo = todo,
                                           !.pc = IF todo = <<>> THEN "records"
                                                  ELSE "detach"]]
    /\ UNCHANGED zone_records
    /\ UNCHANGED mm2Vars

\* Mutant: a failed disassociation is skipped and the loop goes on.
DetachFailureIgnored(p) ==
    /\ sw[p].pc = "detach"
    /\ LET l == sw[p]
           vpc == Vpc(Head(l.todo).VPCRegion, Head(l.todo).VPCId)
       IN  \E outcome \in DetachOutcomes(vpc) :
              /\ dcalls' = Append(dcalls, VpcCall(p, "disassociate_vpc_from_hosted_zone",
                                                  vpc, outcome))
              /\ zone_vpcs' = IF outcome = "ok" THEN zone_vpcs \ {vpc} ELSE zone_vpcs
              /\ sw' = [sw EXCEPT ![p] =
                        [l EXCEPT !.todo = Tail(l.todo),
                                  !.pc = IF Tail(l.todo) = <<>> THEN "records"
                                         ELSE "detach"]]
    /\ UNCHANGED zone_records
    /\ UNCHANGED mm2Vars

\* lines 396-405: one disassociation of the loop
Detach(p) ==
    /\ sw[p].pc = "detach"
    /\ LET l == sw[p]
           vpc == Vpc(Head(l.todo).VPCRegion, Head(l.todo).VPCId)
       IN  \E outcome \in DetachOutcomes(vpc) :
              /\ dcalls' = Append(dcalls, VpcCall(p, "disassociate_vpc_from_hosted_zone",
                                                  vpc, outcome))
              /\ zone_vpcs' = IF outcome = "ok" THEN zone_vpcs \ {vpc} ELSE zone_vpcs
              /\ sw' = [sw EXCEPT ![p] =
                        IF outcome = "Exception"
                        THEN Return(l, [error |-> <<"Failed to disassociate VPC ", vpc.VPCId,
                                                    ": ", "<exception text>">>])
                        ELSE [l EXCEPT !.todo = Tail(l.todo),
                                       !.pc = IF Tail(l.todo) = <<>> THEN "records"
                                              ELSE "detach"]]
    /\ UNCHANGED zone_records
    /\ UNCHANGED mm2Vars

\* Mutant: the port is not removed from the broker address.
ChangesWithPort(broker_addresses, zone_name) ==
    [i \in 1..Len(broker_addresses) |->
        [Action |-> "UPSERT",
         ResourceRecordSet |->
            [Name |-> <<"broker", ToString(i), ".">> \o zone_name,
             Type |-> "CNAME",
             TTL |-> RecordTtl,
             ResourceRecords |-> <<[Value |-> broker_addresses[i]]>>]]]

\* lines 253-271, 410-428: one UPSERT per entry of broker_addresses
Changes(broker_addresses, zone_name) ==
    [i \in 1..Len(broker_addresses) |->
        [Action |-> "UPSERT",
         ResourceRecordSet |->
            [Name |-> <<"broker", ToString(i), ".">> \o zone_name,
             Type |-> "CNAME",
             TTL |-> RecordTtl,
             ResourceRecords |-> <<[Value |-> SplitPart0(broker_addresses[i], ":")]>>]]]

\* Route53 applying a change batch of UPSERTs to the record sets of the zone
Upsert(records, changes) ==
    Update(records,
           DictOf({<<changes[i].ResourceRecordSet.Name,
                     [Type |-> changes[i].ResourceRecordSet.Type,
                      TTL |-> changes[i].ResourceRecordSet.TTL,
                      Value |-> changes[i].ResourceRecordSet.ResourceRecords[1].Value]>> :
                   i \in 1..Len(changes)}))

\* lines 283, 441
BrokerDnsNames(broker_addresses, zone_name) ==
    [i \in 1..Len(broker_addresses) |->
        <<"broker", ToString(i), ".">> \o WithoutLastChar(zone_name)]

\* lines 273-287, 430-445: the change request and the return value
ApplyChanges(p, message, error_prefix) ==
    LET l == sw[p]
        changes == Changes(l.broker_info.broker_addresses, l.zone_name)
    IN  \E outcome \in ChangeOutcomes(changes) :
           /\ dcalls' = Append(dcalls, ChangeCall(p, changes, outcome))
           /\ zone_records' = IF outcome = "ok" THEN Upsert(zone_records, changes)
                              ELSE zone_records
           /\ sw' = [sw EXCEPT ![p] =
                     IF outcome = "ok"
                     THEN Return(l, [success |-> TRUE,
                                     message |-> message,
                                     broker_dns_names |->
                                         BrokerDnsNames(l.broker_info.broker_addresses,
                                                        l.zone_name),
                                     change_info |-> "ChangeInfo"])
                     ELSE Return(l, [error |-> <<error_prefix, "<exception text>">>])]

\* lines 407-445
UpdateRecords(p) ==
    /\ sw[p].pc = "records"
    /\ ApplyChanges(p, <<"Successfully switched to ",
                         IF sw[p].args.activate_dr THEN "DR" ELSE "Primary",
                         " cluster ", ActiveClusterName(sw[p]), " in ", ActiveRegion(sw[p])>>,
                    "Failed to update DNS records: ")
    /\ UNCHANGED zone_vpcs
    /\ UNCHANGED mm2Vars

----------------------------------------------------------------------------
(* create_msk_custom_domain *)

DomainArgs ==
    {[region |-> c[1], cluster_name |-> c[2], zone_name |-> z, vpc_id |-> v] :
        c \in {<<PrimaryRegion, PrimaryCluster>>, <<DrRegion, DrCluster>>},
        z \in {<<"kafka.example.com">>, HostedZoneName},
        v \in {None, PrimaryVpc}}

\* lines 192-213: the call, and zone_name given its final dot
Invoke_create_msk_custom_domain(p) ==
    /\ sw[p].pc = "idle"
    /\ \E a \in DomainArgs :
          sw' = [sw EXCEPT ![p] =
                 [op |-> "create_msk_custom_domain", pc |-> "cd_resolve", step |-> None,
                  args |-> a, vpc_id |-> a.vpc_id, zone_name |-> WithFinalDot(a.zone_name),
                  zone_info |-> None, broker_info |-> None, ret |-> None]]
    /\ UNCHANGED <<zone_vpcs, zone_records, dcalls>>
    /\ UNCHANGED mm2Vars

\* lines 215-220
DomainResolve(p) ==
    /\ sw[p].pc = "cd_resolve"
    /\ LET l == sw[p]
       IN  IF Absent(l.vpc_id)
           THEN \E outcome \in VpcOutcomes :
                   LET vpc_info == vpc_for_msk_cluster(l.args.region, l.args.cluster_name,
                                                       outcome)
                   IN  sw' = [sw EXCEPT ![p] =
                              IF vpc_info.raised THEN Raise(l)
                              ELSE IF IsError(vpc_info.value) THEN Return(l, vpc_info.value)
                              ELSE [l EXCEPT !.vpc_id = vpc_info.value.vpc_id,
                                             !.pc = "cd_brokers"]]
           ELSE sw' = [sw EXCEPT ![p].pc = "cd_brokers"]
    /\ UNCHANGED <<zone_vpcs, zone_records, dcalls>>
    /\ UNCHANGED mm2Vars

\* lines 222-225
DomainBrokerLookup(p) ==
    /\ sw[p].pc = "cd_brokers"
    /\ \E outcome \in BrokerOutcomes, n \in 0..MaxBrokers :
          LET l == sw[p]
              broker_info == msk_broker_info(l.args.region, l.args.cluster_name, outcome, n)
          IN  sw' = [sw EXCEPT ![p] =
                     IF broker_info.raised THEN Raise(l)
                     ELSE IF IsError(broker_info.value) THEN Return(l, broker_info.value)
                     ELSE [l EXCEPT !.broker_info = broker_info.value, !.pc = "cd_zone"]]
    /\ UNCHANGED <<zone_vpcs, zone_records, dcalls>>
    /\ UNCHANGED mm2Vars

\* lines 227-232
DomainZoneLookup(p) ==
    /\ sw[p].pc = "cd_zone"
    /\ \E outcome \in ZoneOutcomes, current \in Orderings(zone_vpcs) :
          LET l == sw[p]
              zone_info == route53_hosted_zone_info(l.zone_name, outcome, current)
          IN  sw' = [sw EXCEPT ![p] =
                     IF zone_info.raised THEN Raise(l)
                     ELSE IF IsError(zone_info.value) THEN Return(l, zone_info.value)
                     ELSE [l EXCEPT !.zone_info = zone_info.value, !.pc = "cd_attach"]]
    /\ UNCHANGED <<zone_vpcs, zone_records, dcalls>>
    /\ UNCHANGED mm2Vars

\* lines 234-248
DomainAttach(p) ==
    /\ sw[p].pc = "cd_attach"
    /\ LET l == sw[p]
           vpc == Vpc(l.args.region, l.vpc_id)
       IN  \E outcome \in AttachOutcomes(vpc) :
              /\ dcalls' = Append(dcalls, VpcCall(p, "associate_vpc_with_hosted_zone",
                                                  vpc, outcome))
              /\ zone_vpcs' = IF outcome = "ok" THEN zone_vpcs \cup {vpc} ELSE zone_vpcs
              /\ sw' = [sw EXCEPT ![p] =
                        IF outcome = "Exception"
                        THEN Return(l, [error |-> <<"Failed to associate VPC with hosted zone: ",
                                                    "<exception text>">>])
                        ELSE [l EXCEPT !.pc = "cd_records"]]
    /\ UNCHANGED zone_records
    /\ UNCHANGED mm2Vars

\* lines 250-287
DomainCreateRecords(p) ==
    /\ sw[p].pc = "cd_records"
    /\ ApplyChanges(p, <<"Successfully created DNS records for MSK cluster ",
                         sw[p].args.cluster_name>>,
                    "Failed to create DNS records: ")
    /\ UNCHANGED zone_vpcs
    /\ UNCHANGED mm2Vars

----------------------------------------------------------------------------
(* The lookup tools and list_route53_resource_record_sets *)

LookupTools ==
    {"get_msk_cluster_info", "get_msk_broker_info", "get_vpc_for_msk_cluster",
     "get_route53_hosted_zone_info"}

\* lines 17-38
msk_cluster_info(region, cluster_name, outcome) ==
    CASE outcome = "raises" -> Raises
      [] outcome = "cluster_not_found" -> Value(ClusterNotFound(region, cluster_name))
      [] OTHER ->
            Value([cluster_arn |-> <<"arn:aws:kafka:", region, ":cluster/", cluster_name>>,
                   cluster_info |-> "ClusterInfo"])

\* lines 40-49, 100-112, 137-149, 179-190: each tool returns what its helper
\* returns
LookupTool(p) ==
    /\ sw[p].pc = "idle"
    /\ \E t \in LookupTools, z \in {<<"kafka.example.com">>, HostedZoneName} :
          LET a == [region |-> PrimaryRegion, cluster_name |-> PrimaryCluster, zone_name |-> z]
              l == [op |-> t, pc |-> "lookup", step |-> None, args |-> a, ret |-> None]
          IN  \E r \in
                 CASE t = "get_msk_cluster_info" ->
                        {msk_cluster_info(a.region, a.cluster_name, o) : o \in BrokerOutcomes}
                   [] t = "get_msk_broker_info" ->
                        {msk_broker_info(a.region, a.cluster_name, o, n) :
                            o \in BrokerOutcomes, n \in 0..MaxBrokers}
                   [] t = "get_vpc_for_msk_cluster" ->
                        {vpc_for_msk_cluster(a.region, a.cluster_name, o) : o \in VpcOutcomes}
                   [] OTHER ->
                        {route53_hosted_zone_info(a.zone_name, o, current) :
                            o \in ZoneOutcomes, current \in Orderings(zone_vpcs)} :
                 sw' = [sw EXCEPT ![p] = IF r.raised THEN Raise(l) ELSE Return(l, r.value)]
    /\ UNCHANGED <<zone_vpcs, zone_records, dcalls>>
    /\ UNCHANGED mm2Vars

\* line 290: the call
Invoke_list_route53_resource_record_sets(p) ==
    /\ sw[p].pc = "idle"
    /\ \E z \in {<<"kafka.example.com">>, HostedZoneName} :
          sw' = [sw EXCEPT ![p] =
                 [op |-> "list_route53_resource_record_sets", pc |-> "list_zone",
                  step |-> None, args |-> [zone_name |-> z], zone_info |-> None,
                  ret |-> None]]
    /\ UNCHANGED <<zone_vpcs, zone_records, dcalls>>
    /\ UNCHANGED mm2Vars

\* lines 300-301: zone_info["zone_id"] raises KeyError on the error dict
ListZoneLookup(p) ==
    /\ sw[p].pc = "list_zone"
    /\ \E outcome \in ZoneOutcomes, current \in Orderings(zone_vpcs) :
          LET l == sw[p]
              zone_info == route53_hosted_zone_info(l.args.zone_name, outcome, current)
          IN  sw' = [sw EXCEPT ![p] =
                     IF zone_info.raised THEN Raise(l)
                     ELSE IF "zone_id" \notin DOMAIN zone_info.value THEN Raise(l)
                     ELSE [l EXCEPT !.zone_info = zone_info.value, !.pc = "list_records"]]
    /\ UNCHANGED <<zone_vpcs, zone_records, dcalls>>
    /\ UNCHANGED mm2Vars

\* lines 302-307
ListRecords(p) ==
    /\ sw[p].pc = "list_records"
    /\ \E outcome \in {"ok", "raises"} :
          LET l == sw[p]
          IN  sw' = [sw EXCEPT ![p] =
                     IF outcome = "raises" THEN Raise(l)
                     ELSE Return(l, [zone_info |-> l.zone_info,
                                     resource_record_sets |-> zone_records])]
    /\ UNCHANGED <<zone_vpcs, zone_records, dcalls>>
    /\ UNCHANGED mm2Vars

----------------------------------------------------------------------------
(* One caller of the custom-domain server, and nobody else changing the    *)
(* hosted zone                                                             *)

\* the record sets of a zone that points at n brokers of a cluster
RecordsFor(cluster_name, n) ==
    Upsert(<<>>, Changes([i \in 1..n |-> BrokerAddress(cluster_name, i)], HostedZoneName))

InitDomain ==
    /\ ToolsIdle
    /\ log = <<>>
    /\ now = 0
    /\ start_time = 0
    /\ observed = <<>>
    /\ sleeps = 0
    /\ wresult = NoResult
    /\ wpc = "idle"
    /\ wargs = NoArgs
    /\ connector_config = None
    /\ zone_vpcs \in SUBSET VpcPairs
    /\ zone_records \in {RecordsFor(c, n) : c \in {PrimaryCluster, DrCluster},
                                             n \in 0..MaxBrokers}
    /\ sw = [p \in Procs |-> NotStarted]
    /\ dcalls = <<>>
    /\ prior = NoPrior

NextDomain ==
    \E p \in {"A"} :
        \/ Invoke_perform_dr_switch(p)
        \/ ResolvePrimary(p)
        \/ ResolveDr(p)
        \/ ZoneLookup(p)
        \/ BrokerLookup(p)
        \/ Attach(p)
        \/ Detach(p)
        \/ UpdateRecords(p)
        \/ Invoke_create_msk_custom_domain(p)
        \/ DomainResolve(p)
        \/ DomainBrokerLookup(p)
        \/ DomainZoneLookup(p)
        \/ DomainAttach(p)
        \/ DomainCreateRecords(p)
        \/ LookupTool(p)
        \/ Invoke_list_route53_resource_record_sets(p)
        \/ ListZoneLookup(p)
        \/ ListRecords(p)

SpecDomain == InitDomain /\ [][NextDomain]_vars

----------------------------------------------------------------------------
(* Properties of perform_dr_switch and create_msk_custom_domain *)

IsSwitch(p) == sw[p].op = "perform_dr_switch"

\* the places in dcalls of the calls p issued
CallsOf(p) == {i \in 1..Len(dcalls) : dcalls[i].proc = p}

Attaches(p) == {i \in CallsOf(p) : dcalls[i].call = "associate_vpc_with_hosted_zone"}
Detaches(p) == {i \in CallsOf(p) : dcalls[i].call = "disassociate_vpc_from_hosted_zone"}
RecordChanges(p) == {i \in CallsOf(p) : dcalls[i].call = "change_resource_record_sets"}

\* the attach step of p is over and did not abort the invocation
Attached(p) == \E i \in Attaches(p) : dcalls[i].outcome # "Exception"

\* C14: within one perform_dr_switch invocation the attach of the active
\* endpoint is issued before any detach, and in every state after the attach
\* step, between and after the detach calls and after an abort on a detach
\* failure, the zone has at least one association.
C14_ZoneNeverWithoutAssociation ==
    \A p \in Procs :
        IsSwitch(p) =>
            /\ \A d \in Detaches(p) : \E a \in Attaches(p) : a < d /\ dcalls[a].outcome # "Exception"
            /\ Attached(p) => /\ zone_vpcs # {}
                               /\ ActiveVpc(sw[p]) \in zone_vpcs

\* A switch that aborted on its second detach, after the first one succeeded.
C14_Witness ==
    \E p \in Procs :
        /\ IsSwitch(p)
        /\ sw[p].pc = "done"
        /\ sw[p].step = "detach"
        /\ Cardinality(Detaches(p)) = 2
        /\ \E d \in Detaches(p) : dcalls[d].outcome = "ok"
        /\ Cardinality(zone_vpcs) >= 2

Succeeded(p) == sw[p].pc = "done" /\ "success" \in DOMAIN sw[p].ret

\* the endpoint the boolean selector of the invocation designates
SelectedRegion(l) == IF l.args.activate_dr THEN l.args.dr_region ELSE l.args.primary_region
SelectedCluster(l) ==
    IF l.args.activate_dr THEN l.args.dr_cluster_name ELSE l.args.primary_cluster_name
SelectedVpcId(l) == IF l.args.activate_dr THEN l.dr_vpc_id ELSE l.primary_vpc_id

BrokerRecordName(i) == <<"broker", ToString(i), ".">> \o HostedZoneName

\* C15: a perform_dr_switch that succeeds, with no other actor mutating the
\* zone, ends with the associations of the zone equal to exactly the active
\* (region, VPC), the DR one iff activate_dr, and with every broker record
\* UPSERTed as a TTL-300 CNAME to the matching host of the active cluster.
C15_SwitchEndState ==
    \A p \in Procs :
        (IsSwitch(p) /\ Succeeded(p)) =>
            LET l == sw[p]
                last == dcalls[Len(dcalls)]
            IN  /\ zone_vpcs = {Vpc(SelectedRegion(l), SelectedVpcId(l))}
                /\ last.call = "change_resource_record_sets"
                /\ \A i \in 1..Len(l.broker_info.broker_addresses) :
                      /\ last.changes[i].Action = "UPSERT"
                      /\ last.changes[i].ResourceRecordSet.Name = BrokerRecordName(i)
                      /\ BrokerRecordName(i) \in DOMAIN zone_records
                      /\ zone_records[BrokerRecordName(i)] =
                            [Type |-> "CNAME", TTL |-> 300,
                             Value |-> <<BrokerHost(SelectedCluster(l), i)>>]

\* A switch to DR that succeeded on a zone associated with the primary VPC
\* only, after one detach, with two brokers.
C15_Witness ==
    \E p \in Procs :
        /\ IsSwitch(p)
        /\ Succeeded(p)
        /\ sw[p].args.activate_dr
        /\ Len(sw[p].broker_info.broker_addresses) = 2
        /\ \E d \in Detaches(p) : dcalls[d].vpc = Vpc(PrimaryRegion, PrimaryVpc)
        /\ zone_vpcs = {Vpc(DrRegion, DrVpc)}

AttachingOps == {"perform_dr_switch", "create_msk_custom_domain"}
AttachSteps == {"attach", "cd_attach"}

AbortedAt(p, steps) ==
    sw[p].pc = "done" /\ sw[p].step \in steps /\ "error" \in DOMAIN sw[p].ret

\* C16: when the attach call of perform_dr_switch or create_msk_custom_domain
\* reports that the association already exists, the operation goes on with
\* the remaining steps and returns success if they succeed; any other attach
\* failure ends the operation with an error, and no further call is issued.
C16_BenignAttachConflictAbsorbed ==
    \A p \in Procs :
        sw[p].op \in AttachingOps =>
            \A a \in Attaches(p) :
                /\ dcalls[a].outcome = "ConflictingDomainExists" =>
                      /\ ~AbortedAt(p, AttachSteps)
                      /\ sw[p].pc \in {"detach", "records", "cd_records", "done"}
                      /\ (sw[p].pc = "done" /\ \A i \in CallsOf(p) :
                                                   i > a => dcalls[i].outcome = "ok") =>
                            (Succeeded(p) /\ \E c \in RecordChanges(p) : c > a)
                /\ dcalls[a].outcome = "Exception" =>
                      /\ AbortedAt(p, AttachSteps)
                      /\ \A i \in CallsOf(p) : i <= a

\* A switch whose attach reported the conflict, and which then detached a
\* superseded association, upserted the records and returned success.
C16_Witness ==
    \E p \in Procs :
        /\ IsSwitch(p)
        /\ Succeeded(p)
        /\ \E a \in Attaches(p) : dcalls[a].outcome = "ConflictingDomainExists"
        /\ Detaches(p) # {}

\* the invocation of p is over and did not succeed
EndedWithoutSuccess(p) == sw[p].pc \in {"done", "raised"} /\ ~Succeeded(p)

LookupSteps == {"resolve_primary", "resolve_dr", "zone", "brokers"}

VpcLookupErrors(region, cluster_name) ==
    {ClusterNotFound(region, cluster_name).error,
     <<"Could not retrieve subnet information from cluster">>,
     <<"Could not retrieve VPC information from subnet">>}

LastCallOf(p) == dcalls[CHOOSE i \in CallsOf(p) : \A j \in CallsOf(p) : j <= i]

\* the error text is the one the step reports
ErrorOfStep(p, step, error) ==
    LET l == sw[p]
    IN  CASE step = "resolve_primary" ->
               error \in VpcLookupErrors(l.args.primary_region, l.args.primary_cluster_name)
          [] step = "resolve_dr" ->
               error \in VpcLookupErrors(l.args.dr_region, l.args.dr_cluster_name)
          [] step = "zone" ->
               error = <<"Hosted zone '">> \o l.zone_name \o <<"' not found">>
          [] step = "brokers" ->
               error = ClusterNotFound(SelectedRegion(l), SelectedCluster(l)).error
          [] step = "attach" ->
               /\ error[1] = "Failed to associate VPC with hosted zone: "
               /\ LastCallOf(p).call = "associate_vpc_with_hosted_zone"
          [] step = "detach" ->
               /\ error[1] = "Failed to disassociate VPC "
               /\ LastCallOf(p).call = "disassociate_vpc_from_hosted_zone"
               /\ error[2] = LastCallOf(p).vpc.VPCId
          [] step = "records" ->
               /\ error[1] = "Failed to update DNS records: "
               /\ LastCallOf(p).call = "change_resource_record_sets"
          [] OTHER -> FALSE

OkVpcs(p, calls) == {dcalls[i].vpc : i \in {c \in calls : dcalls[c].outcome = "ok"}}

\* C17: when a step of perform_dr_switch fails, no later step is executed (a
\* failed lookup leaves the invocation without any mutating call, a failed
\* call is the last call of the invocation), an error is returned and it is
\* the message of the failed step, and what was applied stays: the
\* associations are the ones found at the zone lookup, plus the attached VPC,
\* minus the VPCs detached so far.
C17_SwitchAbortsWithoutRollback ==
    \A p \in Procs :
        IsSwitch(p) =>
            /\ \A i, j \in CallsOf(p) : (dcalls[i].outcome = "Exception") => j <= i
            /\ EndedWithoutSuccess(p) =>
                  /\ sw[p].step \in LookupSteps => CallsOf(p) = {}
                  /\ sw[p].step \notin LookupSteps =>
                        /\ LastCallOf(p).outcome = "Exception"
                        /\ zone_vpcs =
                              (SeqToSet(sw[p].zone_info.zone_info.VPCs)
                                  \cup OkVpcs(p, Attaches(p))) \ OkVpcs(p, Detaches(p))
                        /\ OkVpcs(p, Attaches(p)) \subseteq zone_vpcs
                        /\ OkVpcs(p, Detaches(p)) \cap zone_vpcs = {}
                  /\ sw[p].pc = "done"
                  /\ DOMAIN sw[p].ret = {"error"}
                  /\ ErrorOfStep(p, sw[p].step, sw[p].ret.error)

ResolveSteps == {"resolve_primary", "resolve_dr"}

BothResolved(l) == ~Absent(l.primary_vpc_id) /\ ~Absent(l.dr_vpc_id)

\* C18: perform_dr_switch has the VPC ids of both the primary and the DR
\* endpoint before it goes past the resolution, whichever endpoint is
\* activated, and if either resolution fails the invocation fails having
\* issued no associate, disassociate or record-change call.
C18_BothEndpointsResolvedFirst ==
    \A p \in Procs :
        IsSwitch(p) =>
            /\ (sw[p].pc \notin ResolveSteps /\ sw[p].step \notin ResolveSteps) =>
                  BothResolved(sw[p])
            /\ CallsOf(p) # {} => BothResolved(sw[p])
            /\ (sw[p].pc \in {"done", "raised"} /\ sw[p].step \in ResolveSteps) =>
                  /\ ~Succeeded(p)
                  /\ CallsOf(p) = {}
                  /\ ~BothResolved(sw[p])

\* A switch to DR that was given the DR VPC id and failed because the primary
\* endpoint, which is not the activated one, could not be resolved.
C18_Witness ==
    \E p \in Procs :
        /\ IsSwitch(p)
        /\ sw[p].args.activate_dr
        /\ ~Absent(sw[p].args.dr_vpc_id)
        /\ AbortedAt(p, {"resolve_primary"})
        /\ CallsOf(p) = {}

\* C19: every public entry point returns, for every outcome of its external
\* calls, either its result or a structured error value: no invocation of a
\* tool of the custom-domain server is left by an exception.
C19_NoExceptionPropagates ==
    \A p \in Procs : sw[p].pc # "raised"

----------------------------------------------------------------------------
(* create_complete_mm2_setup leaves what it created *)

DeleteCalls == {"delete_custom_plugin", "delete_connector", "delete_worker_configuration"}

\* part occurs in text, token by token
HasPart(text, part) ==
    \E i \in 0..(Len(text) - Len(part)) : SubSeq(text, i + 1, i + Len(part)) = part

\* the steps that create a resource
CreatingSteps == {1, 3, 4, 5}

\* C20: create_complete_mm2_setup never issues a delete request, whatever
\* step fails, so every resource a succeeded step created is still there when
\* the run returns, and the returned report has the result of every succeeded
\* step.
C20_NoAutomaticRollback ==
    InSetup =>
        /\ \A i \in 1..Len(log) : log[i].call \notin DeleteCalls
        /\ pc = "done" =>
              \A k \in CreatingSteps :
                  StepSucceeded(k) =>
                      /\ StepIssued(k)
                      /\ HasPart(ret, StepResult(k))

\* A run that created the plugin and the heartbeat connector and then failed
\* to create the checkpoint connector.
C20_Witness ==
    /\ InSetup
    /\ pc = "done"
    /\ StepSucceeded(1)
    /\ StepSucceeded(3)
    /\ StepFailed(4)
    /\ HasPart(ret, StepResult(3))

----------------------------------------------------------------------------
(* Two runs of create_complete_mm2_setup *)

\* the steps a report lists, in the order of the report
StepsReported(text) == SelectSeq(text, LAMBDA t : t \in {HeadingText(k) : k \in 1..5})

ReportsCompletion(text) == Contains(text, " MirrorMaker2 complete setup creation finished!")

SecondRunReturned == InSetup /\ pc = "done" /\ prior # NoPrior

\* C21: two runs of create_complete_mm2_setup in which every step succeeds
\* yield two reports with the same steps in the same order, both reporting
\* completion, whatever the first run left behind.
C21_ReportingIdempotent ==
    (SecondRunReturned /\ \A k \in 1..5 : StepSucceeded(k)) =>
        /\ StepsReported(ret) = StepsReported(prior.ret)
        /\ StepsReported(ret) = [k \in 1..5 |-> HeadingText(k)]
        /\ ReportsCompletion(ret)
        /\ ReportsCompletion(prior.ret)

\* A second run in which every step succeeded, after a first run that
\* created the plugin and the three connectors.
C21_Witness ==
    /\ SecondRunReturned
    /\ \A k \in 1..5 : StepSucceeded(k)
    /\ Len(prior.created) = 4
    /\ Len(CreateCalls(log)) = 4

----------------------------------------------------------------------------
(* The external calls of create_complete_mm2_setup *)

\* the step a creating request belongs to
StepOfCall(c) ==
    CASE c.call = "create_custom_plugin" -> 1
      [] c.name = args.plugin_name \o <<"-heartbeat">> -> 3
      [] c.name = args.plugin_name \o <<"-checkpoint">> -> 4
      [] c.name = args.plugin_name \o <<"-source">> -> 5
      [] OTHER -> 0

\* the steps of the creating requests issued so far, in the order of the log
StepsCalled == [i \in 1..Len(CreateCalls(log)) |-> StepOfCall(CreateCalls(log)[i])]

Polls == {i \in 1..Len(log) : log[i].call = "describe_custom_plugin"}
Creations(call) == {i \in 1..Len(log) : log[i].call = call}

\* what holds of the calls of a run besides the order of the creations: the
\* polls of the plugin state come after the creation of the plugin and before
\* any creation of a connector, no step is invoked twice, no connector state
\* is polled, and every connector is created with the ARN the creation of the
\* plugin returned
CallsWellFormed ==
    /\ \A i \in Polls :
          /\ \E j \in Creations("create_custom_plugin") : j < i
          /\ \A j \in Creations("create_connector") : i < j
    /\ \A i, j \in 1..Len(StepsCalled) : StepsCalled[i] = StepsCalled[j] => i = j
    /\ \A i \in 1..Len(log) : log[i].call # "describe_connector"
    /\ \A i \in Creations("create_connector") :
          /\ Creations("create_custom_plugin") # {}
          /\ log[i].plugin_arn = ArnOf("custom-plugin", args.plugin_name)
          /\ log[i].plugin_arn = plugin_arn

\* C22 as claimed: in every run of create_complete_mm2_setup the creating
\* requests are a prefix of [plugin, heartbeat, checkpoint, source], with the
\* polls of the plugin state only between the first and the second, each step
\* invoked at most once, no wait for a connector, and every connector created
\* with the plugin ARN of step 1.
C22_CallSequenceIsPrefix ==
    InSetup =>
        /\ StepsCalled = SubSeq(<<1, 3, 4, 5>>, 1, Len(StepsCalled))
        /\ CallsWellFormed

----------------------------------------------------------------------------
(* The associations perform_dr_switch decides on *)

\* current_associations (line 388), as a set
Snapshot(p) == SeqToSet(sw[p].zone_info.zone_info.VPCs)

\* the attach of p has returned and p has issued no call since
JustAttached(p) ==
    /\ IsSwitch(p)
    /\ Attached(p)
    /\ Detaches(p) = {}
    /\ RecordChanges(p) = {}

\* C23: the associations perform_dr_switch uses to decide what to detach are
\* read from the zone after the attach call has returned: with no other
\* actor, they are the associations of the zone at that moment.
C23_SnapshotReadAfterAttach ==
    \A p \in Procs : JustAttached(p) => Snapshot(p) = zone_vpcs

ActivePair(p) == Vpc(SelectedRegion(sw[p]), SelectedVpcId(sw[p]))

DetachedBy(p) == {dcalls[d].vpc : d \in Detaches(p)}

\* every detach of the loop was issued and none failed
DetachLoopOver(p) ==
    /\ IsSwitch(p)
    /\ \/ sw[p].pc = "records"
       \/ sw[p].pc = "done" /\ sw[p].step = "records"

\* C24: perform_dr_switch issues a detach for exactly the snapshotted
\* associations that differ from the active (region, VPC id) pair in region
\* or in id, each once, and never for the active pair: the active id in
\* another region and another id in the active region are both detached.
C24_DetachSet ==
    \A p \in Procs :
        IsSwitch(p) =>
            /\ \A d \in Detaches(p) :
                  /\ dcalls[d].vpc \in Snapshot(p)
                  /\ dcalls[d].vpc # ActivePair(p)
                  /\ \A e \in Detaches(p) : dcalls[e].vpc = dcalls[d].vpc => e = d
            /\ DetachLoopOver(p) =>
                  /\ DetachedBy(p) = Snapshot(p) \ {ActivePair(p)}
                  /\ \A v \in Snapshot(p) :
                        (v.VPCRegion # ActivePair(p).VPCRegion
                            \/ v.VPCId # ActivePair(p).VPCId) => v \in DetachedBy(p)

\* A switch to DR on a zone associated with the DR VPC id in the primary
\* region, the primary VPC id in the DR region, and the active pair: the
\* first two were detached, the active pair was not.
C24_Witness ==
    \E p \in Procs :
        /\ DetachLoopOver(p)
        /\ sw[p].args.activate_dr
        /\ ActivePair(p) \in Snapshot(p)
        /\ DetachedBy(p) = {Vpc(PrimaryRegion, DrVpc), Vpc(DrRegion, PrimaryVpc)}

\* C25: perform_dr_switch issues the record change only after every required
\* detach has succeeded, as one change request per invocation with one UPSERT
\* per broker address of the active cluster, named broker1..brokerN in the
\* zone; if a detach fails no record change is issued.
C25_RecordsAfterDetachInOneBatch ==
    \A p \in Procs :
        IsSwitch(p) =>
            /\ Cardinality(RecordChanges(p)) <= 1
            /\ Succeeded(p) => Cardinality(RecordChanges(p)) = 1
            /\ \A c \in RecordChanges(p) :
                  /\ \A d \in Detaches(p) : d < c /\ dcalls[d].outcome = "ok"
                  /\ DetachedBy(p) = Snapshot(p) \ {ActivePair(p)}
                  /\ Len(dcalls[c].changes) = Len(sw[p].broker_info.broker_addresses)
                  /\ \A i \in 1..Len(dcalls[c].changes) :
                        /\ dcalls[c].changes[i].Action = "UPSERT"
                        /\ dcalls[c].changes[i].ResourceRecordSet.Name = BrokerRecordName(i)
            /\ (\E d \in Detaches(p) : dcalls[d].outcome # "ok") =>
                  /\ RecordChanges(p) = {}
                  /\ ~Succeeded(p)

\* A switch that detached two associations and then sent one change request
\* with the records of two brokers.
C25_Witness ==
    \E p \in Procs :
        /\ IsSwitch(p)
        /\ Succeeded(p)
        /\ Cardinality(Detaches(p)) = 2
        /\ \E c \in RecordChanges(p) : Len(dcalls[c].changes) = 2

----------------------------------------------------------------------------
(* The keys generate_cluster_auth_config emits for each mechanism *)

\* the keys of one setting for the cluster itself, its producer and its
\* consumer
RoleKeys(cluster_alias, name) ==
    {ClusterKey(cluster_alias, role \o name) : role \in {"", "producer.", "consumer."}}

ProtocolKeys(cluster_alias) == RoleKeys(cluster_alias, "security.protocol")
MechanismKeys(cluster_alias) == RoleKeys(cluster_alias, "sasl.mechanism")
JaasKeys(cluster_alias) == RoleKeys(cluster_alias, "sasl.jaas.config")
CallbackKeys(cluster_alias) == RoleKeys(cluster_alias, "sasl.client.callback.handler.class")

\* the arguments the tool passes for an alias
AuthArgs(cluster_alias) ==
    IF cluster_alias = "source"
    THEN [auth_type |-> args.source_auth_type, role_arn |-> args.source_role_arn,
          username |-> args.source_username, password |-> args.source_password]
    ELSE [auth_type |-> args.target_auth_type, role_arn |-> args.target_role_arn,
          username |-> args.target_username, password |-> args.target_password]

\* the mapping of the alias has been generated and merged into connector_config
Generated(cluster_alias) ==
    IF cluster_alias = "source" THEN pc \in {"target_auth", "configured"}
    ELSE pc = "configured"

\* the entries generate_cluster_auth_config has put into connector_config
Emitted(cluster_alias) ==
    [k \in {key \in DOMAIN connector_config : HasClusterPrefix(key, cluster_alias)}
                \ BaseKeys |-> connector_config[k]]

\* what the claim and its amendment agree on: the PLAINTEXT and the SCRAM
\* mappings
PlaintextAndScramKeys(cluster_alias, config) ==
    LET a == AuthArgs(cluster_alias)
    IN  /\ Lower(a.auth_type) = "plaintext" =>
              /\ DOMAIN config = ProtocolKeys(cluster_alias)
              /\ \A k \in DOMAIN config : config[k] = <<"PLAINTEXT">>
        /\ Lower(a.auth_type) = "scram" =>
              /\ DOMAIN config = ProtocolKeys(cluster_alias) \cup MechanismKeys(cluster_alias)
                                   \cup JaasKeys(cluster_alias)
              /\ \A k \in ProtocolKeys(cluster_alias) : config[k] = <<"SASL_SSL">>
              /\ \A k \in MechanismKeys(cluster_alias) : config[k] = <<"SCRAM-SHA-512">>
              /\ \A k \in JaasKeys(cluster_alias) :
                    HasPart(config[k], a.username \o <<"\" password=\"">> \o a.password
                                        \o <<"\";">>)

\* C26 as claimed: for IAM the mapping has security-protocol, SASL-mechanism
\* and credential-callback keys for base, producer and consumer, six to nine
\* keys in total; for PLAINTEXT only the three security-protocol keys, set to
\* PLAINTEXT; for SCRAM the security-protocol, SASL-mechanism and JAAS keys
\* with username and password embedded verbatim.
C26_KeySetsSixToNineForIam ==
    \A cluster_alias \in {"source", "target"} :
        Generated(cluster_alias) =>
            LET r == [config |-> Emitted(cluster_alias)]
            IN
                  /\ PlaintextAndScramKeys(cluster_alias, r.config)
                  /\ Lower(AuthArgs(cluster_alias).auth_type) = "iam" =>
                        /\ DOMAIN r.config \subseteq
                              ProtocolKeys(cluster_alias) \cup MechanismKeys(cluster_alias)
                                  \cup CallbackKeys(cluster_alias)
                        /\ Cardinality(DOMAIN r.config) \in 6..9

\* C26 as amended: for IAM the mapping has twelve keys, the security-protocol,
\* SASL-mechanism, JAAS and credential-callback keys for base, producer and
\* consumer, the JAAS values carrying the role ARN; PLAINTEXT and SCRAM as
\* claimed.
C26_KeySetsPerMechanism ==
    \A cluster_alias \in {"source", "target"} :
        Generated(cluster_alias) =>
            LET r == [config |-> Emitted(cluster_alias)]
            IN
                  /\ PlaintextAndScramKeys(cluster_alias, r.config)
                  /\ Lower(AuthArgs(cluster_alias).auth_type) = "iam" =>
                        /\ DOMAIN r.config =
                              ProtocolKeys(cluster_alias) \cup MechanismKeys(cluster_alias)
                                  \cup JaasKeys(cluster_alias) \cup CallbackKeys(cluster_alias)
                        /\ Cardinality(DOMAIN r.config) = 12
                        /\ \A k \in ProtocolKeys(cluster_alias) : r.config[k] = <<"SASL_SSL">>
                        /\ \A k \in MechanismKeys(cluster_alias) :
                              r.config[k] = <<"AWS_MSK_IAM">>
                        /\ \A k \in JaasKeys(cluster_alias) :
                              HasPart(r.config[k],
                                      AuthArgs(cluster_alias).role_arn
                                          \o <<"\" awsDebugCreds=true;">>)
                        /\ \A k \in CallbackKeys(cluster_alias) :
                              r.config[k] =
                                  <<"software.amazon.msk.auth.iam.IAMClientCallbackHandler">>

\* A connector configuration with the twelve IAM entries of the source and
\* the nine SCRAM entries of the target.
C26_Witness ==
    /\ pc = "configured"
    /\ Lower(args.source_auth_type) = "iam"
    /\ Lower(args.target_auth_type) = "scram"
    /\ Cardinality({k \in DOMAIN connector_config : HasClusterPrefix(k, "source")}
                       \ BaseKeys) = 12
    /\ Cardinality({k \in DOMAIN connector_config : HasClusterPrefix(k, "target")}
                       \ BaseKeys) = 9

----------------------------------------------------------------------------
(* The broker records after a switch *)

DeactivatedCluster(l) ==
    IF l.args.activate_dr THEN l.args.primary_cluster_name ELSE l.args.dr_cluster_name

\* the record points at a broker of the cluster
PointsAt(record, cluster_name) ==
    \E i \in 1..MaxBrokers : record.Value = <<BrokerHost(cluster_name, i)>>

\* C27: after a successful perform_dr_switch no record of the zone points at
\* a host of the deactivated cluster, whatever the broker counts of the two
\* clusters are.
C27_NoStaleBrokerRecords ==
    \A p \in Procs :
        (IsSwitch(p) /\ Succeeded(p)) =>
            \A name \in DOMAIN zone_records :
                ~PointsAt(zone_records[name], DeactivatedCluster(sw[p]))

----------------------------------------------------------------------------
(* Two invocations of perform_dr_switch on the same zone, one activating   *)
(* the DR cluster and one the primary cluster, interleaved at their helper *)
(* calls and Route53 requests.                                             *)

\* the caller that activates the DR cluster; the other activates the primary
DrCaller == "A"

\* lines 309-338: the two invocations
InvokeConcurrentSwitch(p) ==
    /\ sw[p].pc = "idle"
    /\ \E a \in SwitchArgs :
          /\ a.activate_dr = (p = DrCaller)
          /\ a.zone_name = HostedZoneName
          /\ a.dr_vpc_id # ""
          /\ sw' = [sw EXCEPT ![p] = Started("perform_dr_switch", a, "resolve_primary")]
    /\ UNCHANGED <<zone_vpcs, zone_records, dcalls>>
    /\ UNCHANGED mm2Vars

\* the zone starts associated with the VPC of either cluster, or of both
InitConcurrent ==
    /\ InitDomain
    /\ zone_vpcs # {}
    /\ zone_vpcs \subseteq {Vpc(PrimaryRegion, PrimaryVpc), Vpc(DrRegion, DrVpc)}

NextConcurrent ==
    \E p \in Procs :
        \/ InvokeConcurrentSwitch(p)
        \/ ResolvePrimary(p)
        \/ ResolveDr(p)
        \/ ZoneLookup(p)
        \/ BrokerLookup(p)
        \/ Attach(p)
        \/ Detach(p)
        \/ UpdateRecords(p)

SpecConcurrent == InitConcurrent /\ [][NextConcurrent]_vars

\* C28: while two perform_dr_switch invocations on the same zone run
\* concurrently, one activating DR and the other the primary, from a zone
\* with at least one association, the zone always has an association.
C28_ConcurrentSwitchesKeepZoneAssociated ==
    (\A p \in Procs : IsSwitch(p)) => zone_vpcs # {}

----------------------------------------------------------------------------
(* perform_dr_switch invoked, and invoked again with the same arguments     *)
(* once the first invocation has ended.                                    *)

\* the first invocation and the one that repeats it
FirstRun == "A"
SecondRun == "B"

\* the associations and records of the zone when an invocation starts
ZoneBefore == [before |-> [VPCs |-> zone_vpcs, records |-> zone_records]]

\* lines 309-338: the first invocation
InvokeSwitchFirst ==
    /\ sw[FirstRun].pc = "idle"
    /\ \E a \in SwitchArgs :
          /\ a.zone_name = HostedZoneName
          /\ a.dr_vpc_id = DrVpc
          /\ sw' = [sw EXCEPT ![FirstRun] =
                       Started("perform_dr_switch", a, "resolve_primary") @@ ZoneBefore]
    /\ UNCHANGED <<zone_vpcs, zone_records, dcalls>>
    /\ UNCHANGED mm2Vars

\* lines 309-338: the same call again, after the first has returned or raised
InvokeSwitchAgain ==
    /\ sw[FirstRun].pc \in {"done", "raised"}
    /\ sw[SecondRun].pc = "idle"
    /\ sw' = [sw EXCEPT ![SecondRun] =
                 Started("perform_dr_switch", sw[FirstRun].args, "resolve_primary")
                     @@ ZoneBefore]
    /\ UNCHANGED <<zone_vpcs, zone_records, dcalls>>
    /\ UNCHANGED mm2Vars

NextAgain ==
    \/ InvokeSwitchFirst
    \/ InvokeSwitchAgain
    \/ \E p \in Procs :
          \/ ResolvePrimary(p)
          \/ ResolveDr(p)
          \/ ZoneLookup(p)
          \/ BrokerLookup(p)
          \/ Attach(p)
          \/ Detach(p)
          \/ UpdateRecords(p)

\* the zone starts associated with some of: the VPC of either cluster, and a
\* third VPC
InitAgain ==
    /\ InitDomain
    /\ zone_vpcs \subseteq {Vpc(PrimaryRegion, PrimaryVpc), Vpc(DrRegion, DrVpc),
                            Vpc(DrRegion, PrimaryVpc)}

SpecAgain == InitAgain /\ [][NextAgain]_vars

\* what a switch that meets no failure leaves, started on the records `records`
\* and given the broker addresses the invocation l was given
UninterruptedSwitch(l, records) ==
    [VPCs |-> {Vpc(SelectedRegion(l), SelectedVpcId(l))},
     records |-> Upsert(records, Changes(l.broker_info.broker_addresses, l.zone_name))]

\* C29: once the second invocation, with the same arguments, has succeeded:
\* if the first one aborted, the zone has the associations and the records an
\* uninterrupted switch from the first one's starting point leaves; if the
\* first one succeeded and the cluster reports the same brokers, the zone has
\* the associations and the records it had when the second one started.
C29_RerunConverges ==
    (IsSwitch(SecondRun) /\ Succeeded(SecondRun)) =>
        LET first == sw[FirstRun]
            second == sw[SecondRun]
            now_ == [VPCs |-> zone_vpcs, records |-> zone_records]
        IN  IF Succeeded(FirstRun)
            THEN first.broker_info = second.broker_info => now_ = second.before
            ELSE now_ = UninterruptedSwitch(second, first.before.records)

\* the first invocation aborted in its detach loop after a disassociation,
\* and the second one succeeded
C29_Witness ==
    /\ IsSwitch(SecondRun) /\ Succeeded(SecondRun)
    /\ sw[FirstRun].pc = "done" /\ sw[FirstRun].step = "detach"
    /\ \E i \in Detaches(FirstRun) : dcalls[i].outcome = "ok"
    /\ Detaches(SecondRun) # {}

----------------------------------------------------------------------------
(* describe_connector, invoked on the connector a connector tool created    *)
(* with its connector_config.                                              *)

SensitiveWords == <<"password", "secret", "key">>

\* `sensitive in key.lower()`: of the key texts the connector tools write,
\* "key.converter" is the one a sensitive word occurs in
OccursIn(sensitive, key) == sensitive = "key" /\ Contains(key, "key.converter")

\* line 1790: any(sensitive in key.lower() for sensitive in [...])
IsSensitive(key) ==
    \E i \in 1..Len(SensitiveWords) : OccursIn(SensitiveWords[i], key)

\* lines 1788-1792: the lines of the configuration, one per key of `keys`
RECURSIVE ConfigurationLines(_, _)
ConfigurationLines(connectorConfiguration, keys) ==
    IF keys = {} THEN <<>>
    ELSE LET key == CHOOSE k \in keys : TRUE
             value == IF IsSensitive(key) THEN <<"***MASKED***">>
                      ELSE connectorConfiguration[key]
         IN  <<"  ">> \o key \o <<": ">> \o value \o <<NewLine>>
             \o ConfigurationLines(connectorConfiguration, keys \ {key})

\* the connectorDescription MSK Connect returns for the connector
ConnectorDescription(connector_arn, connectorConfiguration) ==
    [connectorName |-> Sample("connector_name"), connectorArn |-> connector_arn,
     connectorState |-> "RUNNING", connectorConfiguration |-> connectorConfiguration]

\* lines 1758-1800
describe_connector(connector_arn, connector, e) ==
    LET v == validate_required_params([connector_arn |-> connector_arn],
                                      <<"connector_arn">>)
        client == get_kafka_connect_client(e.client)
        request == Call("describe_connector", connector_arn, <<>>)
    IN  IF v.raised
        THEN [text |-> <<Failed, " to describe connector: ">> \o v.text, calls |-> <<>>]
        ELSE IF client.raised
        THEN [text |-> <<Failed, " to describe connector: ">> \o client.text,
              calls |-> <<client.call>>]
        ELSE IF e.api = "ClientError"
        THEN [text |-> <<Failed, " to describe connector (", "<code>", "): ">>
                       \o ClientErrorText("DescribeConnector"),
              calls |-> <<client.call, request>>]
        ELSE IF e.api # "ok"
        THEN [text |-> <<Failed, " to describe connector: ", "<exception text>">>,
              calls |-> <<client.call, request>>]
        ELSE [text |-> <<"Connector Details:", NewLine, "Name: ">> \o connector.connectorName
                       \o <<NewLine, ArnLabel>> \o connector.connectorArn
                       \o <<NewLine, "State: ", connector.connectorState, NewLine,
                            "Description: ", "N/A", NewLine,
                            "Kafka Connect<U+7248><U+672C>: ", "<kafkaConnectVersion>", NewLine,
                            "Creation Time: ", "<creationTime>", NewLine,
                            "Current Version: ", "<currentVersion>", NewLine,
                            "Service Execution Role: ", "<serviceExecutionRoleArn>", NewLine,
                            NewLine, "Configuration:", NewLine>>
                       \o ConfigurationLines(connector.connectorConfiguration,
                                             DOMAIN connector.connectorConfiguration),
              calls |-> <<client.call, request>>]

\* describe_connector called on the connector created with connector_config
DescribeConnector ==
    /\ pc = "configured"
    /\ \E connector_arn \in {<<>>, Sample("connector_arn")}, e \in Envs :
          LET r == describe_connector(connector_arn,
                                      ConnectorDescription(connector_arn, connector_config), e)
          IN  /\ ret' = r.text
              /\ log' = log \o r.calls
    /\ pc' = "described"
    /\ UNCHANGED <<tool, args, results, plugin_arn, wait_result, connector_config>>
    /\ UNCHANGED <<pollerVars, domainVars, callerVars>>

NextDescribe == BuildConnectorConfig \/ AddSourceAuth \/ AddTargetAuth \/ DescribeConnector

SpecDescribe == InitAuth /\ [][NextDescribe]_vars

----------------------------------------------------------------------------
(* Properties of describe_connector *)

OtherPasswords == {<<"s3cret">>, <<"hunter2">>}

\* the arguments with the SCRAM passwords replaced
WithPassword(a, password) ==
    [a EXCEPT !.source_password = IF Lower(a.source_auth_type) = "scram" THEN password ELSE @,
              !.target_password = IF Lower(a.target_auth_type) = "scram" THEN password ELSE @]

\* the connector_config the tool builds from the arguments a
ConfigurationOf(a) ==
    Update(Update(BaseConnectorConfig(KindOfTool, a), AuthConfigFor("source", a).config),
           AuthConfigFor("target", a).config)

UsesScram == \E cluster_alias \in {"source", "target"} :
                Lower(AuthArgs(cluster_alias).auth_type) = "scram"

\* describe_connector has returned the details of the connector
Described == pc = "described" /\ ret[1] = "Connector Details:"

\* C30: for a connector configuration a connector tool built with SCRAM
\* authentication, the text describe_connector returns is the text it
\* returns for the configuration built with any other password.
C30_DescribeHidesPassword ==
    (Described /\ UsesScram) =>
        \A password \in OtherPasswords :
            ret = describe_connector(
                      Sample("connector_arn"),
                      ConnectorDescription(Sample("connector_arn"),
                                           ConfigurationOf(WithPassword(args, password))),
                      [client |-> "ok", api |-> "ok"]).text

====
